---------------------------- MODULE Spec2Model ----------------------------
(***************************************************************************)
(* A model of s3synchrony: S3Connection.synchronize and the phases it      *)
(* runs (src/src/DataPlatforms/s3conn.py), driven by smart_sync            *)
(* (src/src/s3synchrony.py).                                               *)
(*                                                                         *)
(* A pandas DataFrame is a sequence of rows; a row carries its index label *)
(* (idx) next to the four columns.  A csv file is a sequence of records    *)
(* without the label: to_csv(index=False) drops it and read_csv numbers    *)
(* the rows 0..n-1 again.                                                  *)
(***************************************************************************)
EXTENDS Integers, Sequences, FiniteSets, TLC

\* ------------------------------------------------------------------ bounds
MaxTime == 1          \* the clock runs over the seconds 0..MaxTime
MaxEdits == 2         \* the user changes the data folder at most so often
MaxFaults == 1        \* at most this many transfers raise for no reason
                      \* the model knows (the network, a permission)

\* ---------------------------------------------------------------- universe
Clients == {"A", "B"}
\* A relative path is the sequence of its components ('/'-separated).
Paths == {<<"a", "x">>, <<"b", "x">>}
\* os.walk's order of the files of the data folder.
WalkOrder == << <<"a", "x">>, <<"b", "x">> >>
\* Two more paths a data folder may hold, both with ".S3" in them: a file
\* next to the tables of the .S3 folder, and a file of the data whose name
\* ends in .S3.
PathsWithS3 == {<<".S3", "x">>, <<"a", "x.S3">>}
AllPaths == Paths \cup PathsWithS3
\* os.walk's order of all of them.
WalkAll == << <<".S3", "x">>, <<"a", "x">>, <<"a", "x.S3">>, <<"b", "x">> >>
\* File contents.
Data == {1, 2}
\* A file is [data, mtime]; an object is <<data>>.
NoFile == [data |-> 0, mtime |-> -1]
NoObject == <<>>
\* The lines a user may have written to ignores3.txt.
IgnoreChoices == {{}, {<<"b", "x">>}}
\* Path components that hold the substring ".S3" (_s3id).
S3Names == {".S3", "x.S3"}

\* file.split('/')[-1]
Basename(file) == file[Len(file)]
Basenames == {Basename(p) : p \in Paths}

\* DataPlatformConnection._hash: the md5 digest of the bytes of the file.
Hash(data) == <<"md5", data>>

\* str.lower() on the answers the model types at a prompt.
Lower(s) ==
  CASE s = "Y" -> "y"
    [] s = "YES" -> "yes"
    [] s = "A" -> "a"
    [] s = "ALL" -> "all"
    [] OTHER -> s

\* The answers typed at a Y/N confirmation.
Answers == {"y", "YES", "n", ""}

\* The set of the elements of a sequence.
Range(s) == {s[i] : i \in 1..Len(s)}

\* ------------------------------------------------------------- DataFrames
\* df[_file_colname] as a set, for isin.
FileCol(df) == {df[i].file : i \in 1..Len(df)}
\* df[_file_colname].values.tolist()
FileList(df) == [i \in 1..Len(df) |-> df[i].file]
\* df.loc[df[_file_colname].isin(S)] and its negation.
IsIn(df, S) == SelectSeq(df, LAMBDA r : r.file \in S)
NotIn(df, S) == SelectSeq(df, LAMBDA r : r.file \notin S)

RECURSIVE SortedSeq(_)
SortedSeq(S) ==
  IF S = {} THEN <<>>
  ELSE LET m == CHOOSE x \in S : \A y \in S : x <= y
       IN <<m>> \o SortedSeq(S \ {m})

\* The rows of df at the positions P, in their order.
RowsAt(df, P) == LET o == SortedSeq(P) IN [k \in 1..Len(o) |-> df[o[k]]]

\* pd.read_csv: rows labelled 0..n-1.
ReadCsv(csv) ==
  [i \in 1..Len(csv) |->
     [idx |-> i - 1, file |-> csv[i].file, editor |-> csv[i].editor,
      time |-> csv[i].time, hash |-> csv[i].hash]]

\* df.to_csv(path, index=False); with the index written (line 848) the file
\* gains an unnamed column that no later read looks at.
ToCsv(df) ==
  [i \in 1..Len(df) |->
     [file |-> df[i].file, editor |-> df[i].editor,
      time |-> df[i].time, hash |-> df[i].hash]]

\* df.drop_duplicates([_file_colname], keep="last")
DropDuplicatesLast(df) ==
  RowsAt(df, {i \in 1..Len(df) :
                \A j \in (i + 1)..Len(df) : df[j].file # df[i].file})

\* df.sort_index(): by label, rows of equal label in their order.
SortIndex(df) ==
  LET before(j, i) == \/ df[j].idx < df[i].idx
                      \/ (df[j].idx = df[i].idx /\ j < i)
      rank(i) == Cardinality({j \in 1..Len(df) : before(j, i)}) + 1
  IN [k \in 1..Len(df) |-> df[CHOOSE i \in 1..Len(df) : rank(i) = k]]

\* df.loc[df[_file_colname] == file].iloc[0]
RowOf(df, file) ==
  df[CHOOSE i \in 1..Len(df) :
       /\ df[i].file = file
       /\ \A j \in 1..(i - 1) : df[j].file # file]

\* ------------------------------------------------------------------ state
VARIABLES
  files,          \* files[c][p]: the file p of c's data folder, or NoFile
  ignore,         \* ignore[c]: the lines of c's ignores3.txt (self._ignore)
  s3versions,     \* c's .S3/versions.csv (RemoteManifest, as c holds it)
  s3del,          \* c's .S3/deletedS3.csv (RemoteTombstones, as c holds it)
  localversions,  \* c's .S3/versionsLocal.csv (LocalSnapshot)
  localdel,       \* c's .S3/deletedLocal.csv (LocalTombstones)
  log,            \* self._log: the error entries of c's session
  pc,             \* the phase c's session is about to run, or "idle"
  objects,        \* the object at the key aws_prfx/p, or NoObject
  archive,        \* the object at the key aws_prfx/.S3/deleted/name
  remoteVersions, \* aws_prfx/.S3/versions.csv
  remoteDel,      \* aws_prfx/.S3/deletedS3.csv
  now,            \* the clock, in seconds
  nedits,         \* the number of changes the user made
  nfaults,        \* the number of transfers that raised for no known reason
  hist,           \* hist[c]: the phases c's session has run, in order, each
                  \* with the list it showed
  last,           \* last[c]: what the last phase of c's session was
                  \* answered and did
  clean,          \* clean[c]: "clean" while every prompt of c's session
                  \* was answered "all" (and "y") and every transfer went
                  \* through, "all" once a transfer failed, "no" otherwise
  quiet,          \* quiet[c]: what clean[c] was when c's last session
                  \* ended, "no" once the data folder, ignores3.txt or the
                  \* store has changed since
  nsessions,      \* nsessions[c]: the sessions c has started, where counted
  unreadable,     \* unreadable[c]: the files of c's data folder that open()
                  \* refuses
  broken,         \* broken[c]: the tables of c's .S3 folder that are empty
                  \* files or are not tables
  approved,       \* approved[c]: self._reset_approved of the connection
                  \* c's user holds
  folder,         \* folder[c]: c's data folder has its .S3 folder
  prefix          \* the prefix has its .S3 folder

vars == <<files, ignore, s3versions, s3del, localversions, localdel, log, pc,
          objects, archive, remoteVersions, remoteDel, now, nedits,
          nfaults, hist, last, clean, quiet, nsessions, unreadable, broken,
          approved, folder, prefix>>

\* What a session leaves alone besides its tables.
env == <<unreadable, broken, approved, folder, prefix>>

\* ------------------------------------------------------------- the scan
HasS3(file) == \E i \in 1..Len(file) : file[i] \in S3Names

\* _compute_directory(self.datafolder, ignoreS3): one row per file, in
\* os.walk's order, labelled 0..n-1 (ignore_index=True).
ComputeDirectory(c, ignoreS3) ==
  LET files_under_folder ==
        SelectSeq(WalkAll, LAMBDA p : files[c][p] # NoFile)
      kept == SelectSeq(files_under_folder,
                        LAMBDA p : ~(HasS3(p) /\ ignoreS3))
  IN [i \in 1..Len(kept) |->
        [idx |-> i - 1, file |-> kept[i], editor |-> c,
         time |-> files[c][kept[i]].mtime,
         hash |-> Hash(files[c][kept[i]].data)]]

\* FilterIgnore that filters the remote table only.
FilterIgnoreOther(c, mine, other) ==
  [mine |-> mine, other |-> NotIn(other, ignore[c])]

\* _filter_ignore
FilterIgnore(c, mine, other) ==
  [mine |-> NotIn(mine, ignore[c]), other |-> NotIn(other, ignore[c])]

\* LocalIsNewer with the tie on the local side.
LocalIsNewerOrTie(datemine, dateother) == datemine >= dateother

\* The test of line 573: is the local date the later one?
LocalIsNewer(datemine, dateother) == datemine > dateother

\* _compute_dfs: (mine, other, mod_mine, mod_other)
ComputeDfs(c) ==
  LET f == FilterIgnore(c, ComputeDirectory(c, TRUE), ReadCsv(s3versions[c]))
      mine == f.mine
      other == f.other
      inboth == IsIn(mine, FileCol(other))
      entry(r) == [file |-> r.file,
                   datemine |-> RowOf(mine, r.file).time,
                   dateother |-> RowOf(other, r.file).time]
      changed == SelectSeq(inboth,
                   LAMBDA r : RowOf(inboth, r.file).hash
                                # RowOf(other, r.file).hash)
      newer == SelectSeq(changed,
                 LAMBDA r : LocalIsNewer(entry(r).datemine, entry(r).dateother))
      older == SelectSeq(changed,
                 LAMBDA r : ~LocalIsNewer(entry(r).datemine, entry(r).dateother))
  IN [mine |-> mine, other |-> other,
      mod_mine |-> [i \in 1..Len(newer) |-> entry(newer[i])],
      mod_other |-> [i \in 1..Len(older) |-> entry(older[i])]]

\* ----------------------------------------------------------- what raises
\* The tables of the .S3 folder that only this client writes.
LocalTables == {"versionsLocal.csv", "deletedLocal.csv"}

\* _compute_directory raises when _hash cannot open a file it has to hash:
\* neither of them catches the exception (the ignored files are hashed as
\* well, _filter_ignore comes after the scan).
ScanRaises(c) ==
  \E p \in Paths :
    files[c][p] # NoFile /\ ~HasS3(p) /\ p \in unreadable[c]

\* pd.read_csv raises on an empty file and on a file that is no table.
ReadRaises(c, table) == table \in broken[c]

\* Does the phase c's session is about to run raise before it has done
\* anything? Every phase starts with _compute_dfs; _push_deleted_s3 goes on
\* to read versionsLocal.csv and deletedLocal.csv (lines 815-816).
Raises(c) ==
  \/ ScanRaises(c)
  \/ /\ pc[c] = "push_deleted_s3"
     /\ \E table \in LocalTables : ReadRaises(c, table)

\* ------------------------------------------------------ the data functions
\* What a data function works on: c's data folder, the store, self._log and
\* the list it returns.
World(c) ==
  [files |-> files[c], objects |-> objects, archive |-> archive,
   log |-> log[c], successful |-> <<>>]

LogEntry(op, file, downloaded, deleted, reuploaded) ==
  [op |-> op, file |-> file, downloaded |-> downloaded, deleted |-> deleted,
   reuploaded |-> reuploaded]

\* What one transfer of a list may do: succeed, or raise.
UploadOutcomes == {"ok", "raise"}
\* The soft delete of one file raises in one of its three calls, or in none.
DeleteOutcomes == {"ok", "download", "delete", "upload"}

\* One turn of the loop of _upload_to_s3: upload_file raises when the file is
\* not there, or when the transfer fails.
UploadOne(w, file, outcome) ==
  IF w.files[file] # NoFile /\ outcome = "ok"
  THEN [w EXCEPT !.objects[file] = <<w.files[file].data>>,
                 !.successful = Append(@, file)]
  ELSE [w EXCEPT !.log = Append(@, LogEntry("upload_to_s3", file,
                                            FALSE, FALSE, FALSE))]

RECURSIVE UploadLoop(_, _, _, _)
UploadLoop(w, list, out, i) ==
  IF i > Len(list) THEN w
  ELSE UploadLoop(UploadOne(w, list[i], out[i]), list, out, i + 1)

\* _upload_to_s3
UploadToS3(w, list, out) == UploadLoop(w, list, out, 1)

\* DownloadOne that gives the file the time of the download and leaves its
\* bytes.
DownloadOneTouch(w, file, outcome) ==
  IF w.objects[file] # NoObject /\ outcome = "ok"
  THEN [w EXCEPT !.files[file] = [data |-> w.files[file].data, mtime |-> now],
                 !.successful = Append(@, file)]
  ELSE [w EXCEPT !.log = Append(@, LogEntry("download_from_s3", file,
                                            FALSE, FALSE, FALSE))]

\* DownloadOne that moves the object: the object goes once it is fetched.
DownloadOneMoving(w, file, outcome) ==
  IF w.objects[file] # NoObject /\ outcome = "ok"
  THEN [w EXCEPT !.files[file] = [data |-> w.objects[file][1], mtime |-> now],
                 !.objects[file] = NoObject,
                 !.successful = Append(@, file)]
  ELSE [w EXCEPT !.log = Append(@, LogEntry("download_from_s3", file,
                                            FALSE, FALSE, FALSE))]

\* One turn of the loop of _download_from_s3: the file gets the bytes of the
\* object and the time of the download.
DownloadOne(w, file, outcome) ==
  IF w.objects[file] # NoObject /\ outcome = "ok"
  THEN [w EXCEPT !.files[file] = [data |-> w.objects[file][1], mtime |-> now],
                 !.successful = Append(@, file)]
  ELSE [w EXCEPT !.log = Append(@, LogEntry("download_from_s3", file,
                                            FALSE, FALSE, FALSE))]

\* DownloadLoop that a failure ends: the try around the whole loop.
RECURSIVE DownloadLoopStops(_, _, _, _)
DownloadLoopStops(w, list, out, i) ==
  IF i > Len(list) THEN w
  ELSE LET w1 == DownloadOne(w, list[i], out[i])
       IN IF Len(w1.log) > Len(w.log) THEN w1
          ELSE DownloadLoopStops(w1, list, out, i + 1)

RECURSIVE DownloadLoop(_, _, _, _)
DownloadLoop(w, list, out, i) ==
  IF i > Len(list) THEN w
  ELSE DownloadLoop(DownloadOne(w, list[i], out[i]), list, out, i + 1)

\* _download_from_s3 (it returns nothing: successful is the model's record)
DownloadFromS3(w, list, out) == DownloadLoop(w, list, out, 1)

\* The key a deleted file is archived under: .S3/deleted/ + localFile
ArchiveKey(file) == Basename(file)

\* DeleteOneS3 that deletes the object and archives nothing.
DeleteOneS3Hard(w, file, outcome) ==
  IF w.objects[file] # NoObject /\ outcome = "ok"
  THEN [w EXCEPT !.objects[file] = NoObject, !.successful = Append(@, file)]
  ELSE [w EXCEPT !.log = Append(@, LogEntry("delete_from_s3", file,
                                            FALSE, FALSE, FALSE))]

\* One turn of the loop of _delete_from_s3 (lines 633-667): download to tmp,
\* delete_object, upload to the archive key; the first call that raises
\* ends the turn with a log entry that carries the three flags.
DeleteOneS3(w, file, outcome) ==
  LET downloaded == w.objects[file] # NoObject /\ outcome # "download"
      deleted == downloaded /\ outcome # "delete"
      reuploaded == deleted /\ outcome # "upload"
      staged == w.objects[file]
      w1 == IF deleted THEN [w EXCEPT !.objects[file] = NoObject] ELSE w
      w2 == IF reuploaded
            THEN [w1 EXCEPT !.archive[ArchiveKey(file)] = staged] ELSE w1
  IN IF reuploaded
     THEN [w2 EXCEPT !.successful = Append(@, file)]
     ELSE [w2 EXCEPT !.log = Append(@, LogEntry("delete_from_s3", file,
                                      downloaded, deleted, reuploaded))]

\* DeleteS3Loop that a failure ends: the try around the whole loop.
RECURSIVE DeleteS3LoopStops(_, _, _, _)
DeleteS3LoopStops(w, list, out, i) ==
  IF i > Len(list) THEN w
  ELSE LET w1 == DeleteOneS3(w, list[i], out[i])
       IN IF Len(w1.log) > Len(w.log) THEN w1
          ELSE DeleteS3LoopStops(w1, list, out, i + 1)

RECURSIVE DeleteS3Loop(_, _, _, _)
DeleteS3Loop(w, list, out, i) ==
  IF i > Len(list) THEN w
  ELSE DeleteS3Loop(DeleteOneS3(w, list[i], out[i]), list, out, i + 1)

\* The test of lines 631 and 674.
Confirmed(inp) == Lower(inp) \in {"y", "yes"}

\* _delete_from_s3
DeleteFromS3(w, list, inp, out) ==
  IF Confirmed(inp) THEN DeleteS3Loop(w, list, out, 1) ELSE w

\* One turn of the loop of _delete_from_local: os.remove raises when the
\* file is not there, or cannot be removed.
DeleteOneLocal(w, file, outcome) ==
  IF w.files[file] # NoFile /\ outcome = "ok"
  THEN [w EXCEPT !.files[file] = NoFile, !.successful = Append(@, file)]
  ELSE [w EXCEPT !.log = Append(@, LogEntry("delete_from_local", file,
                                            FALSE, FALSE, FALSE))]

RECURSIVE DeleteLocalLoop(_, _, _, _)
DeleteLocalLoop(w, list, out, i) ==
  IF i > Len(list) THEN w
  ELSE DeleteLocalLoop(DeleteOneLocal(w, list[i], out[i]), list, out, i + 1)

\* _delete_from_local (it returns nothing: successful is the model's record)
DeleteFromLocal(w, list, inp, out) ==
  IF Confirmed(inp) THEN DeleteLocalLoop(w, list, out, 1) ELSE w

\* ------------------------------------------------------------ the prompt
MaxPicks == 2         \* the user types at most this many numbers

\* The sequences of at most k different elements of R.
InjSeqs(R, k) ==
  {s \in UNION {[1..n -> R] : n \in 1..k} :
     \A i, j \in 1..Len(s) : i # j => s[i] # s[j]}

\* What is typed at "(enter numbers separated by commas, enter for cancel,
\* 'all' for all)": a text, or numbers (in the order the set of line 697
\* yields them), the numbers from one below to one above the shown indices.
Inputs(allfiles) ==
  {[text |-> t, nums |-> <<>>] : t \in {"all", "A", ""}}
    \cup {[text |-> "0,1", nums |-> s] :
            s \in InjSeqs(-1..Len(allfiles), MaxPicks)}

\* Is the index typed one of the list? (line 700)
ValidIndex(num, allfiles) == num >= 0 /\ num < Len(allfiles)

\* SelectedFiles that counts the numbers typed along the files of the data
\* folder instead of along the list shown.
SelectedFilesOfFolder(allfiles, indicies) ==
  IF Lower(indicies.text) \in {"a", "all"} THEN allfiles
  ELSE LET valid == SelectSeq(indicies.nums,
                              LAMBDA num : ValidIndex(num, WalkOrder))
       IN [k \in 1..Len(valid) |-> WalkOrder[valid[k] + 1]]

\* The list _apply_selected_indices hands to data_function.
SelectedFiles(allfiles, indicies) ==
  IF Lower(indicies.text) \in {"a", "all"} THEN allfiles
  ELSE LET valid == SelectSeq(indicies.nums,
                              LAMBDA num : ValidIndex(num, allfiles))
       IN [k \in 1..Len(valid) |-> allfiles[valid[k] + 1]]

\* Does _apply_selected_indices call data_function at all?
Called(indicies) == indicies.text # ""

\* _apply_selected_indices: the world data_function leaves (successful is
\* what it returns), or the world as it is after "enter for cancel".
ApplySelectedIndices(data_function(_), w, allfiles, indicies) ==
  IF Called(indicies) THEN data_function(SelectedFiles(allfiles, indicies))
  ELSE w

\* ------------------------------------------------------------- the phases
\* What a phase leaves in hist: the list it showed (cands), whether it
\* prompted, what was typed ("all", "" or "0,1" for numbers), the list
\* handed to the data function (picked), the answer to the Y/N confirmation
\* ("y", "n", or "-" when none was asked), the files the data function
\* got through (done), and whether this prompt and every earlier one of the
\* session was answered with enter alone (declined; Commit and Skip carry
\* it on from phase to phase), and whether a number was typed that is no
\* index of the list (outside).
Shown(phase, cands, indicies, confirm, w) ==
  [phase |-> phase, cands |-> cands, prompted |-> TRUE,
   text |-> IF Lower(indicies.text) \in {"a", "all"} THEN "all"
            ELSE indicies.text,
   called |-> Called(indicies),
   picked |-> IF Called(indicies) THEN SelectedFiles(cands, indicies)
              ELSE <<>>,
   confirm |-> IF ~Called(indicies) \/ confirm = "-" THEN "-"
               ELSE IF Confirmed(confirm) THEN "y" ELSE "n",
   done |-> w.successful,
   declined |-> indicies.text = "",
   outside |-> \E k \in 1..Len(indicies.nums) :
                 ~ValidIndex(indicies.nums[k], cands)]

NotShown(phase) ==
  [phase |-> phase, cands |-> <<>>, prompted |-> FALSE, text |-> "",
   called |-> FALSE, picked |-> <<>>, confirm |-> "-", done |-> <<>>,
   declined |-> TRUE, outside |-> FALSE]

\* The entry of a phase, after the entry of the phase before it.
After(was, entry) ==
  [entry EXCEPT !.declined = was.declined /\ entry.declined]

\* What hist keeps of a phase.
Ran(entry) ==
  [phase |-> entry.phase, cands |-> entry.cands, done |-> entry.done]

\* Was the prompt of the phase answered "all" (and "y")?
AllPhase(entry) ==
  entry.prompted => entry.text = "all" /\ entry.confirm \in {"-", "y"}

\* And did every transfer of it go through?
CleanPhase(entry) ==
  AllPhase(entry) /\ (entry.prompted => entry.done = entry.cands)

\* clean[c] after a phase.
CleanAfter(was, entry) ==
  IF was = "clean" /\ CleanPhase(entry) THEN "clean"
  ELSE IF was \in {"clean", "all"} /\ AllPhase(entry) THEN "all"
  ELSE "no"

\* The transfers of out that raise although the model knows no reason.
Faults(out) == Cardinality({i \in DOMAIN out : out[i] # "ok"})

\* The data folder, the store and the log as the data function left them.
Commit(c, w, entry, out) ==
  /\ nfaults + Faults(out) <= MaxFaults
  /\ nfaults' = nfaults + Faults(out)
  /\ files' = [files EXCEPT ![c] = w.files]
  /\ objects' = w.objects
  /\ archive' = w.archive
  /\ log' = [log EXCEPT ![c] = w.log]
  /\ hist' = [hist EXCEPT ![c] = Append(@, Ran(entry))]
  /\ last' = [last EXCEPT ![c] = After(@, entry)]
  /\ clean' = [clean EXCEPT ![c] = CleanAfter(@, entry)]

\* A phase whose list is empty prompts for nothing.
Skip(c, phase) ==
  /\ hist' = [hist EXCEPT ![c] = Append(@, Ran(NotShown(phase)))]
  /\ last' = [last EXCEPT ![c] = After(@, NotShown(phase))]
  /\ UNCHANGED <<files, objects, archive, log, nfaults, clean>>

\* The order in which synchronize calls the phases (lines 207-217).
PhaseOrder ==
  <<"push_deleted_s3", "pull_deleted_local", "push_new_s3", "pull_new_local",
    "push_modified_s3", "pull_modified_local", "revert_modified_s3",
    "revert_modified_local">>

\* NextPhase with the order of the specification for the four sub-prompts
\* of the modified files: 5a, 5b, 6a, 6b.
NextPhaseBothPushesFirst(phase) ==
  LET order == <<"push_deleted_s3", "pull_deleted_local", "push_new_s3",
                 "pull_new_local", "push_modified_s3", "revert_modified_s3",
                 "pull_modified_local", "revert_modified_local", "finish">>
      i == CHOOSE k \in 1..Len(order) : order[k] = phase
  IN order[i + 1]

\* NextPhase that leaves out the local deletions.
NextPhaseSkipping(phase) ==
  LET order == <<"push_deleted_s3", "push_new_s3", "pull_new_local",
                 "push_modified_s3", "pull_modified_local",
                 "revert_modified_s3", "revert_modified_local", "finish">>
      i == CHOOSE k \in 1..Len(order) : order[k] = phase
  IN order[i + 1]

\* The phase synchronize calls after phase, "finish" after the last.
NextPhase(phase) ==
  LET i == CHOOSE k \in 1..Len(PhaseOrder) : PhaseOrder[k] = phase
  IN IF i = Len(PhaseOrder) THEN "finish" ELSE PhaseOrder[i + 1]

Goto(c, phase) == pc' = [pc EXCEPT ![c] = NextPhase(phase)]

\* DeletedLocal that keeps deletedLocal.csv and adds the files that have
\* gone since versionsLocal.csv was written.
DeletedLocalAppended(c) ==
  LET dfs == ComputeDfs(c)
      deletedlocal == ReadCsv(localdel[c])
      gone == NotIn(ReadCsv(localversions[c]),
                    FileCol(dfs.mine) \cup FileCol(deletedlocal))
  IN deletedlocal \o IsIn(dfs.other, FileCol(gone))

\* _push_deleted_s3, lines 815-825: the rows of other for the files of
\* versionsLocal.csv and deletedLocal.csv that mine does not hold.
DeletedLocal(c) ==
  LET dfs == ComputeDfs(c)
      oldmine == ReadCsv(localversions[c])
      deletedlocal == ReadCsv(localdel[c])
      both == DropDuplicatesLast(oldmine \o deletedlocal)
      gone == NotIn(both, FileCol(dfs.mine))
  IN IsIn(dfs.other, FileCol(gone))

\* NewDeletedS3 that leaves deletedS3.csv as it was read.
NewDeletedS3Unrecorded(c, selecteddelete) == ReadCsv(s3del[c])

\* _push_deleted_s3, lines 844-847: deletedS3.csv after the soft deletes.
NewDeletedS3(c, selecteddelete) ==
  LET deleteds3 == ReadCsv(s3del[c])
      newdeleted == IsIn(ComputeDfs(c).other, Range(selecteddelete))
  IN deleteds3 \o newdeleted

\* VersionsAfterDelete that keeps the rows of the deleted files.
VersionsAfterDeleteKeeping(c, selecteddelete) == ComputeDfs(c).other

\* _push_deleted_s3, lines 851-853: other without the deleted files.
VersionsAfterDelete(c, selecteddelete) ==
  NotIn(ComputeDfs(c).other, Range(selecteddelete))

\* _push_deleted_s3
PushDeletedS3(c) ==
  /\ pc[c] = "push_deleted_s3"
  /\ ~Raises(c)
  /\ LET deletedlocal == DeletedLocal(c)
         to_delete == FileList(deletedlocal)
     IN /\ localdel' = [localdel EXCEPT ![c] = ToCsv(deletedlocal)]
        /\ IF Len(deletedlocal) > 0
           THEN \E indicies \in Inputs(to_delete), inp \in Answers :
                  \E out \in [1..Len(SelectedFiles(to_delete, indicies))
                                -> DeleteOutcomes] :
                    LET w == ApplySelectedIndices(
                               LAMBDA l : DeleteFromS3(World(c), l, inp, out),
                               World(c), to_delete, indicies)
                    IN /\ s3del' = [s3del EXCEPT
                              ![c] = ToCsv(NewDeletedS3(c, w.successful))]
                       /\ s3versions' = [s3versions EXCEPT
                              ![c] = ToCsv(VersionsAfterDelete(c, w.successful))]
                       /\ Commit(c, w, Shown("push_deleted_s3", to_delete,
                                             indicies, inp, w), out)
           ELSE /\ Skip(c, "push_deleted_s3")
                /\ UNCHANGED <<s3del, s3versions>>
  /\ Goto(c, "push_deleted_s3")
  /\ UNCHANGED <<ignore, localversions, remoteVersions, remoteDel, now,
                 nedits, quiet>>
  /\ UNCHANGED <<nsessions, env>>

\* DeletedS3 without the test that mine holds the file.
DeletedS3NotLocal(c) ==
  NotIn(ReadCsv(s3del[c]), FileCol(ComputeDfs(c).other))

\* _pull_deleted_local, lines 890-894: the rows of deletedS3.csv for files
\* that mine holds and other does not.
DeletedS3(c) ==
  LET dfs == ComputeDfs(c)
      deleteds3 == ReadCsv(s3del[c])
  IN NotIn(IsIn(deleteds3, FileCol(dfs.mine)), FileCol(dfs.other))

\* _pull_deleted_local
PullDeletedLocal(c) ==
  /\ pc[c] = "pull_deleted_local"
  /\ ~Raises(c)
  /\ LET deleteds3 == DeletedS3(c)
         to_delete == FileList(deleteds3)
     IN IF Len(deleteds3) > 0
        THEN \E indicies \in Inputs(to_delete), inp \in Answers :
               \E out \in [1..Len(SelectedFiles(to_delete, indicies))
                             -> UploadOutcomes] :
                 LET w == ApplySelectedIndices(
                            LAMBDA l : DeleteFromLocal(World(c), l, inp, out),
                            World(c), to_delete, indicies)
                 IN Commit(c, w, Shown("pull_deleted_local", to_delete,
                                       indicies, inp, w), out)
        ELSE Skip(c, "pull_deleted_local")
  /\ Goto(c, "pull_deleted_local")
  /\ UNCHANGED <<ignore, s3versions, s3del, localversions, localdel,
                 remoteVersions, remoteDel, now, nedits, quiet>>
  /\ UNCHANGED <<nsessions, env>>

\* _push_new_s3, lines 782-783: the rows of mine for files other lacks.
NewLocal(c) ==
  LET dfs == ComputeDfs(c) IN NotIn(dfs.mine, FileCol(dfs.other))

\* VersionsAfterAdd that forgets the uploaded files.
VersionsAfterAddNone(c, selectedadd) == ComputeDfs(c).other

\* VersionsAfterAdd that adds every new file, uploaded or not.
VersionsAfterAddAll(c, selectedadd) ==
  LET dfs == ComputeDfs(c)
  IN dfs.other \o NotIn(dfs.mine, FileCol(dfs.other))

\* _push_new_s3, lines 805-806: other, then the rows of the uploaded files.
VersionsAfterAdd(c, selectedadd) ==
  LET dfs == ComputeDfs(c)
      added_to_s3 == IsIn(dfs.mine, Range(selectedadd))
  IN dfs.other \o added_to_s3

\* _push_new_s3
PushNewS3(c) ==
  /\ pc[c] = "push_new_s3"
  /\ ~Raises(c)
  /\ LET new_local == NewLocal(c)
         to_add == FileList(new_local)
     IN IF Len(new_local) > 0
        THEN \E indicies \in Inputs(to_add) :
               \E out \in [1..Len(SelectedFiles(to_add, indicies))
                             -> UploadOutcomes] :
                 LET w == ApplySelectedIndices(
                            LAMBDA l : UploadToS3(World(c), l, out),
                            World(c), to_add, indicies)
                 IN /\ s3versions' = [s3versions EXCEPT
                           ![c] = ToCsv(VersionsAfterAdd(c, w.successful))]
                    /\ Commit(c, w, Shown("push_new_s3", to_add, indicies,
                                          "-", w), out)
        ELSE /\ Skip(c, "push_new_s3")
             /\ UNCHANGED s3versions
  /\ Goto(c, "push_new_s3")
  /\ UNCHANGED <<ignore, s3del, localversions, localdel, remoteVersions,
                 remoteDel, now, nedits, quiet>>
  /\ UNCHANGED <<nsessions, env>>

\* _pull_new_local, lines 862-863: the rows of other for files mine lacks.
NewS3(c) ==
  LET dfs == ComputeDfs(c) IN NotIn(dfs.other, FileCol(dfs.mine))

\* _pull_sequence and the prompt of _pull_new_local: download the selection.
PullSequence(c, phase, to_pull) ==
  \E indicies \in Inputs(to_pull) :
    \E out \in [1..Len(SelectedFiles(to_pull, indicies)) -> UploadOutcomes] :
      LET w == ApplySelectedIndices(
                 LAMBDA l : DownloadFromS3(World(c), l, out),
                 World(c), to_pull, indicies)
      IN Commit(c, w, Shown(phase, to_pull, indicies, "-", w), out)

\* _pull_new_local
PullNewLocal(c) ==
  /\ pc[c] = "pull_new_local"
  /\ ~Raises(c)
  /\ LET news3 == NewS3(c)
     IN IF Len(news3) > 0
        THEN PullSequence(c, "pull_new_local", FileList(news3))
        ELSE Skip(c, "pull_new_local")
  /\ Goto(c, "pull_new_local")
  /\ UNCHANGED <<ignore, s3versions, s3del, localversions, localdel,
                 remoteVersions, remoteDel, now, nedits, quiet>>
  /\ UNCHANGED <<nsessions, env>>

\* NewVersions that adds the rows of the uploaded files and keeps the old.
NewVersionsAppended(c, selectedpush) ==
  LET dfs == ComputeDfs(c)
      updatedins3 == IsIn(dfs.mine, Range(selectedpush))
  IN SortIndex(dfs.other \o updatedins3)

\* NewVersions that keeps the first row of each file, the one of other.
NewVersionsOldKept(c, selectedpush) ==
  LET dfs == ComputeDfs(c)
      updatedins3 == IsIn(dfs.mine, Range(selectedpush))
  IN SortIndex(DropDuplicatesLast(updatedins3 \o dfs.other))

\* _push_sequence, lines 717-721: other and the rows of mine for the
\* uploaded files, the last row of each file kept, sorted by label.
NewVersions(c, selectedpush) ==
  LET dfs == ComputeDfs(c)
      updatedins3 == IsIn(dfs.mine, Range(selectedpush))
  IN SortIndex(DropDuplicatesLast(dfs.other \o updatedins3))

\* _push_sequence
PushSequence(c, phase, listfiles) ==
  LET to_push == FileList(listfiles)
  IN \E indicies \in Inputs(to_push) :
       \E out \in [1..Len(SelectedFiles(to_push, indicies))
                     -> UploadOutcomes] :
         LET w == ApplySelectedIndices(
                    LAMBDA l : UploadToS3(World(c), l, out),
                    World(c), to_push, indicies)
         IN /\ s3versions' = [s3versions EXCEPT
                   ![c] = ToCsv(NewVersions(c, w.successful))]
            /\ Commit(c, w, Shown(phase, to_push, indicies, "-", w), out)

\* _push_modified_s3
PushModifiedS3(c) ==
  /\ pc[c] = "push_modified_s3"
  /\ ~Raises(c)
  /\ LET mod_mine == ComputeDfs(c).mod_mine
     IN IF Len(mod_mine) > 0
        THEN PushSequence(c, "push_modified_s3", mod_mine)
        ELSE /\ Skip(c, "push_modified_s3")
             /\ UNCHANGED s3versions
  /\ Goto(c, "push_modified_s3")
  /\ UNCHANGED <<ignore, s3del, localversions, localdel, remoteVersions,
                 remoteDel, now, nedits, quiet>>
  /\ UNCHANGED <<nsessions, env>>

\* _pull_modified_local
PullModifiedLocal(c) ==
  /\ pc[c] = "pull_modified_local"
  /\ ~Raises(c)
  /\ LET mod_other == ComputeDfs(c).mod_other
     IN IF Len(mod_other) > 0
        THEN PullSequence(c, "pull_modified_local", FileList(mod_other))
        ELSE Skip(c, "pull_modified_local")
  /\ Goto(c, "pull_modified_local")
  /\ UNCHANGED <<ignore, s3versions, s3del, localversions, localdel,
                 remoteVersions, remoteDel, now, nedits, quiet>>
  /\ UNCHANGED <<nsessions, env>>

\* _revert_modified_s3
RevertModifiedS3(c) ==
  /\ pc[c] = "revert_modified_s3"
  /\ ~Raises(c)
  /\ LET mod_other == ComputeDfs(c).mod_other
     IN IF Len(mod_other) > 0
        THEN PushSequence(c, "revert_modified_s3", mod_other)
        ELSE /\ Skip(c, "revert_modified_s3")
             /\ UNCHANGED s3versions
  /\ Goto(c, "revert_modified_s3")
  /\ UNCHANGED <<ignore, s3del, localversions, localdel, remoteVersions,
                 remoteDel, now, nedits, quiet>>
  /\ UNCHANGED <<nsessions, env>>

\* _revert_modified_local
RevertModifiedLocal(c) ==
  /\ pc[c] = "revert_modified_local"
  /\ ~Raises(c)
  /\ LET mod_mine == ComputeDfs(c).mod_mine
     IN IF Len(mod_mine) > 0
        THEN PullSequence(c, "revert_modified_local", FileList(mod_mine))
        ELSE Skip(c, "revert_modified_local")
  /\ Goto(c, "revert_modified_local")
  /\ UNCHANGED <<ignore, s3versions, s3del, localversions, localdel,
                 remoteVersions, remoteDel, now, nedits, quiet>>
  /\ UNCHANGED <<nsessions, env>>

\* ------------------------------------------------------------ the session
\* _initialize_prefix: the versions.csv of a prefix without .S3 folder
\* lists the objects of the prefix, downloaded and scanned by this client.
InitializePrefix(c) ==
  LET found == SelectSeq(WalkOrder, LAMBDA p : objects[p] # NoObject)
  IN [i \in 1..Len(found) |->
        [file |-> found[i], editor |-> c, time |-> now,
         hash |-> Hash(objects[found[i]][1])]]

\* The two tables of the store once establish_connection has run (lines
\* 135-138): as they are, or as _initialize_prefix makes them.
EstablishedVersions(c) == IF prefix THEN remoteVersions ELSE InitializePrefix(c)
EstablishedDel == IF prefix THEN remoteDel ELSE <<>>

\* smart_sync up to the first phase: a new connection (an empty _log),
\* establish_connection (a prefix without .S3 folder is initialized, a data
\* folder without its tables gets the folder of the prefix and two empty
\* tables) and the two downloads of synchronize (lines 202-205).
StartSession(c) ==
  /\ pc[c] \in {"idle", "crashed"}
  /\ prefix' = TRUE
  /\ folder' = [folder EXCEPT ![c] = TRUE]
  /\ remoteVersions' = EstablishedVersions(c)
  /\ remoteDel' = EstablishedDel
  /\ s3versions' = [s3versions EXCEPT ![c] = EstablishedVersions(c)]
  /\ s3del' = [s3del EXCEPT ![c] = EstablishedDel]
  /\ log' = [log EXCEPT ![c] = <<>>]
  /\ hist' = [hist EXCEPT ![c] = <<>>]
  /\ last' = [last EXCEPT ![c] = NotShown("start")]
  /\ clean' = [clean EXCEPT ![c] = "clean"]
  /\ pc' = [pc EXCEPT ![c] = PhaseOrder[1]]
  /\ quiet' = [d \in Clients |-> IF d = c THEN quiet[d] ELSE "no"]
  /\ UNCHANGED <<files, ignore, localversions, localdel, objects, archive,
                 now, nedits, nfaults>>
  /\ UNCHANGED <<unreadable, broken, approved>>

\* A session, not counted.
Start(c) == StartSession(c) /\ UNCHANGED nsessions

\* A session of a client that has started fewer than MaxSessions.
MaxSessions == 1

StartCounted(c) ==
  /\ nsessions[c] < MaxSessions
  /\ StartSession(c)
  /\ nsessions' = [nsessions EXCEPT ![c] = @ + 1]

\* Finish that uploads versions.csv and keeps deletedS3.csv to itself.
FinishWithoutTombstones(c) ==
  /\ pc[c] = "finish"
  /\ remoteVersions' = s3versions[c]
  /\ localversions' = [localversions EXCEPT
                         ![c] = ToCsv(ComputeDirectory(c, TRUE))]
  /\ pc' = [pc EXCEPT ![c] = "idle"]
  /\ quiet' = [quiet EXCEPT ![c] = clean[c]]
  /\ log' = [log EXCEPT ![c] = <<>>]
  /\ hist' = [hist EXCEPT ![c] = <<>>]
  /\ last' = [last EXCEPT ![c] = NotShown("start")]
  /\ clean' = [clean EXCEPT ![c] = "clean"]
  /\ UNCHANGED <<files, ignore, s3versions, s3del, localdel, objects,
                 archive, remoteDel, now, nedits, nfaults>>
  /\ UNCHANGED <<nsessions, env>>

\* The end of synchronize (lines 219-232): the two tables go to the store,
\* the scan of the data folder becomes versionsLocal.csv, _log goes to the
\* log file and the connection, with its _log, is dropped.
Finish(c) ==
  /\ pc[c] = "finish"
  /\ remoteVersions' = s3versions[c]
  /\ remoteDel' = s3del[c]
  /\ localversions' = [localversions EXCEPT
                         ![c] = ToCsv(ComputeDirectory(c, TRUE))]
  /\ pc' = [pc EXCEPT ![c] = "idle"]
  /\ quiet' = [quiet EXCEPT ![c] = clean[c]]
  /\ log' = [log EXCEPT ![c] = <<>>]
  /\ hist' = [hist EXCEPT ![c] = <<>>]
  /\ last' = [last EXCEPT ![c] = NotShown("start")]
  /\ clean' = [clean EXCEPT ![c] = "clean"]
  /\ UNCHANGED <<files, ignore, s3versions, s3del, localdel, objects,
                 archive, now, nedits, nfaults>>
  /\ UNCHANGED <<nsessions, env>>

\* FinishVersions that adds its rows to the table of the store.
FinishVersionsMerging(c) ==
  /\ pc[c] = "finish"
  /\ remoteVersions' = DropDuplicatesLast(remoteVersions \o s3versions[c])
  /\ pc' = [pc EXCEPT ![c] = "finish_deleted"]
  /\ UNCHANGED <<files, ignore, s3versions, s3del, localversions, localdel,
                 log, objects, archive, remoteDel, now, nedits, nfaults,
                 hist, last, clean, quiet>>
  /\ UNCHANGED <<nsessions, env>>

\* The end of synchronize as another client can see it: the upload of
\* versions.csv (lines 219-220) ...
FinishVersions(c) ==
  /\ pc[c] = "finish"
  /\ remoteVersions' = s3versions[c]
  /\ pc' = [pc EXCEPT ![c] = "finish_deleted"]
  /\ UNCHANGED <<files, ignore, s3versions, s3del, localversions, localdel,
                 log, objects, archive, remoteDel, now, nedits, nfaults,
                 hist, last, clean, quiet>>
  /\ UNCHANGED <<nsessions, env>>

\* ... and then the upload of deletedS3.csv and the rest (lines 221-232).
FinishDeleted(c) ==
  /\ pc[c] = "finish_deleted"
  /\ remoteDel' = s3del[c]
  /\ localversions' = [localversions EXCEPT
                         ![c] = ToCsv(ComputeDirectory(c, TRUE))]
  /\ pc' = [pc EXCEPT ![c] = "idle"]
  /\ quiet' = [quiet EXCEPT ![c] = clean[c]]
  /\ log' = [log EXCEPT ![c] = <<>>]
  /\ hist' = [hist EXCEPT ![c] = <<>>]
  /\ last' = [last EXCEPT ![c] = NotShown("start")]
  /\ clean' = [clean EXCEPT ![c] = "clean"]
  /\ UNCHANGED <<files, ignore, s3versions, s3del, localdel, objects,
                 archive, remoteVersions, now, nedits, nfaults>>
  /\ UNCHANGED <<nsessions, env>>

\* The phase the session is about to run raises: nothing in synchronize
\* or smart_sync catches the exception, the process ends with a traceback,
\* the later phases and the end of synchronize do not run, and _log is lost.
Crash(c) ==
  /\ pc[c] \in Range(PhaseOrder)
  /\ Raises(c)
  /\ pc' = [pc EXCEPT ![c] = "crashed"]
  /\ UNCHANGED <<files, ignore, s3versions, s3del, localversions, localdel,
                 log, objects, archive, remoteVersions, remoteDel, now,
                 nedits, nfaults, hist, last, clean, quiet>>
  /\ UNCHANGED <<nsessions, env>>

\* The process ends while to_csv writes versionsLocal.csv (lines 225-226):
\* the two uploads are done, to_csv has opened the file for writing, which
\* empties it, and has written the first rows of the scan, none or all.
CrashInSave(c) ==
  /\ pc[c] = "finish"
  /\ remoteVersions' = s3versions[c]
  /\ remoteDel' = s3del[c]
  /\ LET scan == ToCsv(ComputeDirectory(c, TRUE))
     IN \E written \in 0..Len(scan) :
          localversions' = [localversions EXCEPT
                              ![c] = SubSeq(scan, 1, written)]
  /\ pc' = [pc EXCEPT ![c] = "crashed"]
  /\ quiet' = [quiet EXCEPT ![c] = "no"]
  /\ UNCHANGED <<files, ignore, s3versions, s3del, localdel, log, objects,
                 archive, now, nedits, nfaults, hist, last, clean>>
  /\ UNCHANGED <<nsessions, env>>

\* ---------------------------------------------------------------- resets
\* What last keeps of a reset call.
ResetCall(name, confirm) ==
  [NotShown(name) EXCEPT !.prompted = confirm # "-",
                         !.confirm = IF confirm = "-" THEN "-"
                                     ELSE IF Confirmed(confirm) THEN "y"
                                     ELSE "n"]

\* reset_confirm: the answer decides _reset_approved.
ResetConfirm(c, confirm) ==
  /\ pc[c] = "idle"
  /\ approved' = [approved EXCEPT ![c] = Confirmed(confirm)]
  /\ last' = [last EXCEPT ![c] = ResetCall("reset_confirm", confirm)]
  /\ UNCHANGED <<files, ignore, s3versions, s3del, localversions, localdel,
                 log, pc, objects, archive, remoteVersions, remoteDel, now,
                 nedits, nfaults, hist, clean, quiet, nsessions, unreadable,
                 broken, folder, prefix>>

\* shutil.rmtree of the .S3 folder of the data folder: the four tables and
\* ignores3.txt go with it, and whatever else the folder holds.
WithoutFolder(f, c) == [f EXCEPT ![c] = <<>>]
WithoutTree(c) ==
  [files EXCEPT ![c] = [p \in AllPaths |->
                          IF p[1] = ".S3" THEN NoFile ELSE files[c][p]]]

\* reset_local that does not look at _reset_approved.
ResetLocalUnasked(c) ==
  /\ pc[c] = "idle"
  /\ last' = [last EXCEPT ![c] = ResetCall("reset_local", "-")]
  /\ IF folder[c]
     THEN /\ folder' = [folder EXCEPT ![c] = FALSE]
          /\ s3versions' = WithoutFolder(s3versions, c)
          /\ s3del' = WithoutFolder(s3del, c)
          /\ localversions' = WithoutFolder(localversions, c)
          /\ localdel' = WithoutFolder(localdel, c)
          /\ ignore' = [ignore EXCEPT ![c] = {}]
          /\ broken' = [broken EXCEPT ![c] = {}]
          /\ quiet' = [quiet EXCEPT ![c] = "no"]
          /\ files' = WithoutTree(c)
     ELSE UNCHANGED <<folder, s3versions, s3del, localversions, localdel,
                      ignore, broken, quiet, files>>
  /\ UNCHANGED <<log, pc, objects, archive, remoteVersions, remoteDel,
                 now, nedits, nfaults, hist, clean, nsessions, unreadable,
                 approved, prefix>>

\* reset_local: with _reset_approved the .S3 folder of the data folder is
\* removed (rmtree raises when there is none); without, a message.
ResetLocal(c) ==
  /\ pc[c] = "idle"
  /\ last' = [last EXCEPT ![c] = ResetCall("reset_local", "-")]
  /\ IF approved[c] /\ folder[c]
     THEN /\ folder' = [folder EXCEPT ![c] = FALSE]
          /\ s3versions' = WithoutFolder(s3versions, c)
          /\ s3del' = WithoutFolder(s3del, c)
          /\ localversions' = WithoutFolder(localversions, c)
          /\ localdel' = WithoutFolder(localdel, c)
          /\ ignore' = [ignore EXCEPT ![c] = {}]
          /\ broken' = [broken EXCEPT ![c] = {}]
          /\ quiet' = [quiet EXCEPT ![c] = "no"]
          /\ files' = WithoutTree(c)
     ELSE UNCHANGED <<folder, s3versions, s3del, localversions, localdel,
                      ignore, broken, quiet, files>>
  /\ UNCHANGED <<log, pc, objects, archive, remoteVersions, remoteDel,
                 now, nedits, nfaults, hist, clean, nsessions, unreadable,
                 approved, prefix>>

\* reset_remote: with _reset_approved every object under the .S3 folder of
\* the prefix is deleted, the archive with the two tables (the listing
\* raises when there is none); without, a message.
ResetRemote(c) ==
  /\ pc[c] = "idle"
  /\ last' = [last EXCEPT ![c] = ResetCall("reset_remote", "-")]
  /\ IF approved[c] /\ prefix
     THEN /\ prefix' = FALSE
          /\ remoteVersions' = <<>>
          /\ remoteDel' = <<>>
          /\ archive' = [n \in Basenames |-> NoObject]
          /\ quiet' = [d \in Clients |-> "no"]
     ELSE UNCHANGED <<prefix, remoteVersions, remoteDel, archive, quiet>>
  /\ UNCHANGED <<files, ignore, s3versions, s3del, localversions, localdel,
                 log, pc, objects, now, nedits, nfaults, hist, clean,
                 nsessions, unreadable, broken, approved, folder>>

\* reset_all: a connection of its own, establish_connection, reset_confirm
\* and, when that returned True, reset_local and reset_remote.
ResetAll(c, confirm) ==
  /\ pc[c] = "idle"
  /\ last' = [last EXCEPT ![c] = ResetCall("reset_all", confirm)]
  /\ IF Confirmed(confirm)
     THEN /\ folder' = [folder EXCEPT ![c] = FALSE]
          /\ s3versions' = WithoutFolder(s3versions, c)
          /\ s3del' = WithoutFolder(s3del, c)
          /\ localversions' = WithoutFolder(localversions, c)
          /\ localdel' = WithoutFolder(localdel, c)
          /\ ignore' = [ignore EXCEPT ![c] = {}]
          /\ broken' = [broken EXCEPT ![c] = {}]
          /\ prefix' = FALSE
          /\ remoteVersions' = <<>>
          /\ remoteDel' = <<>>
          /\ archive' = [n \in Basenames |-> NoObject]
          /\ quiet' = [d \in Clients |-> "no"]
          /\ files' = WithoutTree(c)
     ELSE /\ folder' = [folder EXCEPT ![c] = TRUE]
          /\ prefix' = TRUE
          /\ remoteVersions' = EstablishedVersions(c)
          /\ remoteDel' = EstablishedDel
          /\ s3versions' = IF folder[c] THEN s3versions
                           ELSE [s3versions EXCEPT ![c] = EstablishedVersions(c)]
          /\ s3del' = IF folder[c] THEN s3del
                      ELSE [s3del EXCEPT ![c] = EstablishedDel]
          /\ UNCHANGED <<localversions, localdel, ignore, broken, archive,
                         quiet, files>>
  /\ UNCHANGED <<log, pc, objects, now, nedits, nfaults, hist, clean,
                 nsessions, unreadable, approved>>

\* ------------------------------------------------------------- platforms
\* The keys of _supported_platforms, and the platforms a caller may name.
SupportedPlatforms == {"S3"}
Platforms == {"S3", "GCS", ""}

\* smart_sync with a platform that is no key of _supported_platforms: the
\* connection is a DataPlatformConnection, whose establish_connection and
\* synchronize return at once; intro_message and close_message print their
\* banners and smart_sync returns.
SmartSyncBase(c, platform) ==
  /\ pc[c] = "idle"
  /\ platform \notin SupportedPlatforms
  /\ last' = [last EXCEPT ![c] = [NotShown("smart_sync")
                                    EXCEPT !.text = platform]]
  /\ UNCHANGED <<files, ignore, s3versions, s3del, localversions, localdel,
                 log, pc, objects, archive, remoteVersions, remoteDel, now,
                 nedits, nfaults, hist, clean, quiet>>
  /\ UNCHANGED <<nsessions, env>>

\* reset_all with such a platform: reset_confirm of DataPlatformConnection
\* asks nothing and returns None, so neither reset is called; the banners
\* are printed and reset_all returns.
ResetAllBase(c, platform) ==
  /\ pc[c] = "idle"
  /\ platform \notin SupportedPlatforms
  /\ last' = [last EXCEPT ![c] = [ResetCall("reset_all", "-")
                                    EXCEPT !.text = platform]]
  /\ UNCHANGED <<files, ignore, s3versions, s3del, localversions, localdel,
                 log, pc, objects, archive, remoteVersions, remoteDel, now,
                 nedits, nfaults, hist, clean, quiet>>
  /\ UNCHANGED <<nsessions, env>>

\* ------------------------------------------------- the user, between runs
\* The user writes file p: new bytes, and a modification time that is the
\* present one or an earlier one (a copy that keeps its time).
WriteFile(c, p, data, mtime) ==
  /\ pc[c] = "idle"
  /\ files[c][p] # [data |-> data, mtime |-> mtime]
  /\ files' = [files EXCEPT ![c][p] = [data |-> data, mtime |-> mtime]]
  /\ quiet' = [quiet EXCEPT ![c] = "no"]
  /\ nedits < MaxEdits
  /\ nedits' = nedits + 1
  /\ UNCHANGED <<ignore, s3versions, s3del, localversions, localdel, log, pc,
                 objects, archive, remoteVersions, remoteDel, now,
                 nfaults, hist, last, clean>>
  /\ UNCHANGED <<nsessions, env>>

\* The user removes file p.
RemoveFile(c, p) ==
  /\ pc[c] = "idle"
  /\ files[c][p] # NoFile
  /\ files' = [files EXCEPT ![c][p] = NoFile]
  /\ quiet' = [quiet EXCEPT ![c] = "no"]
  /\ nedits < MaxEdits
  /\ nedits' = nedits + 1
  /\ UNCHANGED <<ignore, s3versions, s3del, localversions, localdel, log, pc,
                 objects, archive, remoteVersions, remoteDel, now,
                 nfaults, hist, last, clean>>
  /\ UNCHANGED <<nsessions, env>>

\* The user rewrites ignores3.txt.
SetIgnore(c, lines) ==
  /\ pc[c] = "idle"
  /\ ignore[c] # lines
  /\ ignore' = [ignore EXCEPT ![c] = lines]
  /\ quiet' = [quiet EXCEPT ![c] = "no"]
  /\ nedits < MaxEdits
  /\ nedits' = nedits + 1
  /\ UNCHANGED <<files, s3versions, s3del, localversions, localdel, log, pc,
                 objects, archive, remoteVersions, remoteDel, now,
                 nfaults, hist, last, clean>>
  /\ UNCHANGED <<nsessions, env>>

\* File p of the data folder can no longer be opened (its permissions
\* change, or another program locks it).
MakeUnreadable(c, p) ==
  /\ pc[c] \in {"idle", "crashed"}
  /\ files[c][p] # NoFile
  /\ p \notin unreadable[c]
  /\ unreadable' = [unreadable EXCEPT ![c] = @ \cup {p}]
  /\ nedits < MaxEdits
  /\ nedits' = nedits + 1
  /\ UNCHANGED <<files, ignore, s3versions, s3del, localversions, localdel,
                 log, pc, objects, archive, remoteVersions, remoteDel, now,
                 nfaults, hist, last, clean, quiet, nsessions, broken,
                 approved, folder, prefix>>

\* A table of the .S3 folder becomes an empty file, or something that is
\* no table (a write that was cut short, an editor).
Corrupt(c, table) ==
  /\ pc[c] \in {"idle", "crashed"}
  /\ table \notin broken[c]
  /\ broken' = [broken EXCEPT ![c] = @ \cup {table}]
  /\ nedits < MaxEdits
  /\ nedits' = nedits + 1
  /\ UNCHANGED <<files, ignore, s3versions, s3del, localversions, localdel,
                 log, pc, objects, archive, remoteVersions, remoteDel, now,
                 nfaults, hist, last, clean, quiet, nsessions, unreadable,
                 approved, folder, prefix>>

\* A second passes.
Tick ==
  /\ now < MaxTime
  /\ \A c \in Clients : pc[c] = "idle"
  /\ now' = now + 1
  /\ UNCHANGED <<files, ignore, s3versions, s3del, localversions, localdel,
                 log, pc, objects, archive, remoteVersions, remoteDel,
                 nedits, nfaults, hist, last, clean, quiet>>
  /\ UNCHANGED <<nsessions, env>>

\* ------------------------------------------------------ the specification
\* The one client of Spec.
Alone == "A"

\* The files a data folder may hold before its first session: file p is
\* not there, or holds bytes of its own.
OldData(p) == IF p = WalkOrder[1] THEN 1 ELSE 2
OldFiles(p) == {NoFile, [data |-> OldData(p), mtime |-> 0]}

\* A prefix that _initialize_prefix found empty, and data folders that
\* establish_connection has just given their empty tables; the data folder
\* of the client of Spec holds whatever files its user had.
Folders(withS3) ==
  {f \in [Clients -> [AllPaths -> {NoFile} \cup UNION {OldFiles(p) : p \in AllPaths}]] :
     /\ \A p \in Paths : f[Alone][p] \in OldFiles(p)
     /\ \A p \in PathsWithS3 : f[Alone][p] \in withS3
     /\ \A c \in Clients \ {Alone} : \A p \in AllPaths : f[c][p] = NoFile}

InitTables ==
  /\ ignore = [c \in Clients |-> {}]
  /\ s3versions = [c \in Clients |-> <<>>]
  /\ s3del = [c \in Clients |-> <<>>]
  /\ localversions = [c \in Clients |-> <<>>]
  /\ localdel = [c \in Clients |-> <<>>]
  /\ log = [c \in Clients |-> <<>>]
  /\ pc = [c \in Clients |-> "idle"]
  /\ objects = [p \in Paths |-> NoObject]
  /\ archive = [n \in Basenames |-> NoObject]
  /\ remoteVersions = <<>>
  /\ remoteDel = <<>>
  /\ now = 0
  /\ nedits = 0
  /\ nfaults = 0
  /\ hist = [c \in Clients |-> <<>>]
  /\ last = [c \in Clients |-> NotShown("start")]
  /\ clean = [c \in Clients |-> "clean"]
  /\ quiet = [c \in Clients |-> "no"]
  /\ nsessions = [c \in Clients |-> 0]
  /\ unreadable = [c \in Clients |-> {}]
  /\ broken = [c \in Clients |-> {}]
  /\ approved = [c \in Clients |-> FALSE]
  /\ folder = [c \in Clients |-> TRUE]
  /\ prefix = TRUE

Init ==
  /\ files \in Folders({NoFile})
  /\ InitTables

Next ==
  \/ Start(Alone)
  \/ PushDeletedS3(Alone)
  \/ PullDeletedLocal(Alone)
  \/ PushNewS3(Alone)
  \/ PullNewLocal(Alone)
  \/ PushModifiedS3(Alone)
  \/ PullModifiedLocal(Alone)
  \/ RevertModifiedS3(Alone)
  \/ RevertModifiedLocal(Alone)
  \/ Finish(Alone)
  \/ \E p \in Paths, data \in Data, mtime \in 0..MaxTime :
       mtime <= now /\ WriteFile(Alone, p, data, mtime)
  \/ \E p \in Paths : RemoveFile(Alone, p)
  \/ \E lines \in IgnoreChoices : SetIgnore(Alone, lines)
  \/ Tick

Spec == Init /\ [][Next]_vars

\* Two clients on one prefix; nothing keeps a session of one from running
\* while a session of the other runs. Client A has pushed its file in a
\* session of its own and has removed it since; client B has a file that
\* no session has seen. No user edits the folders and no transfer fails.
UploadedByAlone ==
  <<[file |-> WalkOrder[1], editor |-> Alone, time |-> 0,
     hash |-> Hash(OldData(WalkOrder[1]))]>>

InitTwo ==
  /\ files = [c \in Clients |-> [p \in AllPaths |->
                 IF c # Alone /\ p \in Paths /\ p # WalkOrder[1]
                 THEN [data |-> OldData(p), mtime |-> 0] ELSE NoFile]]
  /\ ignore = [c \in Clients |-> {}]
  /\ s3versions = [c \in Clients |->
                     IF c = Alone THEN UploadedByAlone ELSE <<>>]
  /\ s3del = [c \in Clients |-> <<>>]
  /\ localversions = [c \in Clients |->
                        IF c = Alone THEN UploadedByAlone ELSE <<>>]
  /\ localdel = [c \in Clients |-> <<>>]
  /\ log = [c \in Clients |-> <<>>]
  /\ pc = [c \in Clients |-> "idle"]
  /\ objects = [p \in Paths |->
                  IF p = WalkOrder[1] THEN <<OldData(p)>> ELSE NoObject]
  /\ archive = [n \in Basenames |-> NoObject]
  /\ remoteVersions = UploadedByAlone
  /\ remoteDel = <<>>
  /\ now = 0
  /\ nedits = MaxEdits
  /\ nfaults = MaxFaults
  /\ hist = [c \in Clients |-> <<>>]
  /\ last = [c \in Clients |-> NotShown("start")]
  /\ clean = [c \in Clients |-> "clean"]
  /\ quiet = [c \in Clients |-> "no"]
  /\ nsessions = [c \in Clients |-> 0]
  /\ unreadable = [c \in Clients |-> {}]
  /\ broken = [c \in Clients |-> {}]
  /\ approved = [c \in Clients |-> FALSE]
  /\ folder = [c \in Clients |-> TRUE]
  /\ prefix = TRUE

NextTwo ==
  \E c \in Clients :
    \/ StartCounted(c)
    \/ PushDeletedS3(c)
    \/ PullDeletedLocal(c)
    \/ PushNewS3(c)
    \/ PullNewLocal(c)
    \/ PushModifiedS3(c)
    \/ PullModifiedLocal(c)
    \/ RevertModifiedS3(c)
    \/ RevertModifiedLocal(c)
    \/ FinishVersions(c)
    \/ FinishDeleted(c)

SpecTwo == InitTwo /\ [][NextTwo]_vars

\* One client whose files can become unreadable and whose tables can
\* break between its sessions.
NextFaulty ==
  \/ Start(Alone)
  \/ PushDeletedS3(Alone)
  \/ PullDeletedLocal(Alone)
  \/ PushNewS3(Alone)
  \/ PullNewLocal(Alone)
  \/ PushModifiedS3(Alone)
  \/ PullModifiedLocal(Alone)
  \/ RevertModifiedS3(Alone)
  \/ RevertModifiedLocal(Alone)
  \/ Finish(Alone)
  \/ Crash(Alone)
  \/ \E p \in Paths : RemoveFile(Alone, p)
  \/ \E p \in Paths : MakeUnreadable(Alone, p)
  \/ \E table \in LocalTables : Corrupt(Alone, table)

SpecFaulty == Init /\ [][NextFaulty]_vars

\* One client that runs sessions and resets.
NextReset ==
  \/ Start(Alone)
  \/ PushDeletedS3(Alone)
  \/ PullDeletedLocal(Alone)
  \/ PushNewS3(Alone)
  \/ PullNewLocal(Alone)
  \/ PushModifiedS3(Alone)
  \/ PullModifiedLocal(Alone)
  \/ RevertModifiedS3(Alone)
  \/ RevertModifiedLocal(Alone)
  \/ Finish(Alone)
  \/ \E confirm \in Answers : ResetConfirm(Alone, confirm)
  \/ ResetLocal(Alone)
  \/ ResetRemote(Alone)
  \/ \E confirm \in Answers : ResetAll(Alone, confirm)

SpecReset == Init /\ [][NextReset]_vars

\* One client whose process may end while the session's end saves
\* versionsLocal.csv.
NextTorn ==
  \/ Start(Alone)
  \/ PushDeletedS3(Alone)
  \/ PullDeletedLocal(Alone)
  \/ PushNewS3(Alone)
  \/ PullNewLocal(Alone)
  \/ PushModifiedS3(Alone)
  \/ PullModifiedLocal(Alone)
  \/ RevertModifiedS3(Alone)
  \/ RevertModifiedLocal(Alone)
  \/ Finish(Alone)
  \/ CrashInSave(Alone)
  \/ \E p \in Paths : RemoveFile(Alone, p)

SpecTorn == Init /\ [][NextTorn]_vars

\* One client whose data folder may hold the two files with ".S3" in their
\* paths; the user removes files between the sessions.
InitScan ==
  /\ files \in UNION {Folders(OldFiles(p)) : p \in PathsWithS3}
  /\ InitTables

NextScan ==
  \/ Start(Alone)
  \/ PushDeletedS3(Alone)
  \/ PullDeletedLocal(Alone)
  \/ PushNewS3(Alone)
  \/ PullNewLocal(Alone)
  \/ PushModifiedS3(Alone)
  \/ PullModifiedLocal(Alone)
  \/ RevertModifiedS3(Alone)
  \/ RevertModifiedLocal(Alone)
  \/ Finish(Alone)
  \/ \E p \in AllPaths : RemoveFile(Alone, p)

SpecScan == InitScan /\ [][NextScan]_vars

\* One client whose caller names the platform: "S3" runs the session or the
\* reset of S3Connection, any other key the ones of DataPlatformConnection.
NextPlatform ==
  \/ Start(Alone)
  \/ PushDeletedS3(Alone)
  \/ PullDeletedLocal(Alone)
  \/ PushNewS3(Alone)
  \/ PullNewLocal(Alone)
  \/ PushModifiedS3(Alone)
  \/ PullModifiedLocal(Alone)
  \/ RevertModifiedS3(Alone)
  \/ RevertModifiedLocal(Alone)
  \/ Finish(Alone)
  \/ \E confirm \in Answers : ResetAll(Alone, confirm)
  \/ \E platform \in Platforms : SmartSyncBase(Alone, platform)
  \/ \E platform \in Platforms : ResetAllBase(Alone, platform)

SpecPlatform == Init /\ [][NextPlatform]_vars

\* One client that has uploaded its file, removed it, soft-deleted it in
\* its next session, written it again and uploaded it again: the file, its
\* object and its record are there, and so are the archived object and the
\* record of deletedS3.csv. The user goes on writing and removing files.
InitTombs ==
  /\ files = [c \in Clients |-> [p \in AllPaths |->
                 IF c = Alone /\ p = WalkOrder[1]
                 THEN [data |-> OldData(p), mtime |-> 0] ELSE NoFile]]
  /\ ignore = [c \in Clients |-> {}]
  /\ s3versions = [c \in Clients |->
                     IF c = Alone THEN UploadedByAlone ELSE <<>>]
  /\ s3del = [c \in Clients |->
                IF c = Alone THEN UploadedByAlone ELSE <<>>]
  /\ localversions = [c \in Clients |->
                        IF c = Alone THEN UploadedByAlone ELSE <<>>]
  /\ localdel = [c \in Clients |-> <<>>]
  /\ log = [c \in Clients |-> <<>>]
  /\ pc = [c \in Clients |-> "idle"]
  /\ objects = [p \in Paths |->
                  IF p = WalkOrder[1] THEN <<OldData(p)>> ELSE NoObject]
  /\ archive = [n \in Basenames |->
                  IF n = Basename(WalkOrder[1])
                  THEN <<OldData(WalkOrder[1])>> ELSE NoObject]
  /\ remoteVersions = UploadedByAlone
  /\ remoteDel = UploadedByAlone
  /\ now = 0
  /\ nedits = 0
  /\ nfaults = 0
  /\ hist = [c \in Clients |-> <<>>]
  /\ last = [c \in Clients |-> NotShown("start")]
  /\ clean = [c \in Clients |-> "clean"]
  /\ quiet = [c \in Clients |-> "no"]
  /\ nsessions = [c \in Clients |-> 0]
  /\ unreadable = [c \in Clients |-> {}]
  /\ broken = [c \in Clients |-> {}]
  /\ approved = [c \in Clients |-> FALSE]
  /\ folder = [c \in Clients |-> TRUE]
  /\ prefix = TRUE

NextTombs ==
  \/ Start(Alone)
  \/ PushDeletedS3(Alone)
  \/ PullDeletedLocal(Alone)
  \/ PushNewS3(Alone)
  \/ PullNewLocal(Alone)
  \/ PushModifiedS3(Alone)
  \/ PullModifiedLocal(Alone)
  \/ RevertModifiedS3(Alone)
  \/ RevertModifiedLocal(Alone)
  \/ Finish(Alone)
  \/ \E p \in Paths, data \in Data, mtime \in 0..MaxTime :
       mtime <= now /\ WriteFile(Alone, p, data, mtime)
  \/ \E p \in Paths : RemoveFile(Alone, p)

SpecTombs == InitTombs /\ [][NextTombs]_vars

\* One client that has uploaded its file, removed it, and in its next
\* session declined both to delete it on S3 and to download it again:
\* versions.csv and the store still list the file, deletedLocal.csv holds
\* its row (line 827), and versionsLocal.csv is the scan of a data folder
\* without it (lines 225-226). The user never writes that file again; they
\* rewrite ignores3.txt and work on the other file.
DeclinedPath == WalkOrder[2]

\* The row the earlier session of the client wrote for it (lines 805-806).
DeclinedRecord ==
  <<[file |-> DeclinedPath, editor |-> Alone, time |-> 0,
     hash |-> Hash(OldData(DeclinedPath))]>>

InitDeclined ==
  /\ files = [c \in Clients |-> [p \in AllPaths |-> NoFile]]
  /\ ignore = [c \in Clients |-> {}]
  /\ s3versions = [c \in Clients |->
                     IF c = Alone THEN DeclinedRecord ELSE <<>>]
  /\ s3del = [c \in Clients |-> <<>>]
  /\ localversions = [c \in Clients |-> <<>>]
  /\ localdel = [c \in Clients |->
                   IF c = Alone THEN DeclinedRecord ELSE <<>>]
  /\ log = [c \in Clients |-> <<>>]
  /\ pc = [c \in Clients |-> "idle"]
  /\ objects = [p \in Paths |->
                  IF p = DeclinedPath THEN <<OldData(p)>> ELSE NoObject]
  /\ archive = [n \in Basenames |-> NoObject]
  /\ remoteVersions = DeclinedRecord
  /\ remoteDel = <<>>
  /\ now = 0
  /\ nedits = 0
  /\ nfaults = 0
  /\ hist = [c \in Clients |-> <<>>]
  /\ last = [c \in Clients |-> NotShown("start")]
  /\ clean = [c \in Clients |-> "clean"]
  /\ quiet = [c \in Clients |-> "no"]
  /\ nsessions = [c \in Clients |-> 0]
  /\ unreadable = [c \in Clients |-> {}]
  /\ broken = [c \in Clients |-> {}]
  /\ approved = [c \in Clients |-> FALSE]
  /\ folder = [c \in Clients |-> TRUE]
  /\ prefix = TRUE

NextDeclined ==
  \/ Start(Alone)
  \/ PushDeletedS3(Alone)
  \/ PullDeletedLocal(Alone)
  \/ PushNewS3(Alone)
  \/ PullNewLocal(Alone)
  \/ PushModifiedS3(Alone)
  \/ PullModifiedLocal(Alone)
  \/ RevertModifiedS3(Alone)
  \/ RevertModifiedLocal(Alone)
  \/ Finish(Alone)
  \/ \E p \in Paths \ {DeclinedPath}, data \in Data, mtime \in 0..MaxTime :
       mtime <= now /\ WriteFile(Alone, p, data, mtime)
  \/ \E p \in Paths \ {DeclinedPath} : RemoveFile(Alone, p)
  \/ \E lines \in IgnoreChoices : SetIgnore(Alone, lines)

SpecDeclined == InitDeclined /\ [][NextDeclined]_vars

\* Two clients that run their sessions one after the other. The first has
\* uploaded both files and has removed them from its data folder since;
\* the second holds a copy of both files in a data folder that
\* establish_connection has just given its empty tables, and may have a
\* line in its ignores3.txt.
Second == CHOOSE c \in Clients : c # Alone

UploadedBoth == UploadedByAlone \o DeclinedRecord

InitInTurn ==
  /\ files = [c \in Clients |-> [p \in AllPaths |->
                 IF c = Second /\ p \in Paths
                 THEN [data |-> OldData(p), mtime |-> 0] ELSE NoFile]]
  /\ ignore \in [Clients -> IgnoreChoices]
  /\ ignore[Alone] = {}
  /\ s3versions = [c \in Clients |->
                     IF c = Alone THEN UploadedBoth ELSE <<>>]
  /\ s3del = [c \in Clients |-> <<>>]
  /\ localversions = [c \in Clients |->
                        IF c = Alone THEN UploadedBoth ELSE <<>>]
  /\ localdel = [c \in Clients |-> <<>>]
  /\ log = [c \in Clients |-> <<>>]
  /\ pc = [c \in Clients |-> "idle"]
  /\ objects = [p \in Paths |-> <<OldData(p)>>]
  /\ archive = [n \in Basenames |-> NoObject]
  /\ remoteVersions = UploadedBoth
  /\ remoteDel = <<>>
  /\ now = 0
  /\ nedits = MaxEdits
  /\ nfaults = 0
  /\ hist = [c \in Clients |-> <<>>]
  /\ last = [c \in Clients |-> NotShown("start")]
  /\ clean = [c \in Clients |-> "clean"]
  /\ quiet = [c \in Clients |-> "no"]
  /\ nsessions = [c \in Clients |-> 0]
  /\ unreadable = [c \in Clients |-> {}]
  /\ broken = [c \in Clients |-> {}]
  /\ approved = [c \in Clients |-> FALSE]
  /\ folder = [c \in Clients |-> TRUE]
  /\ prefix = TRUE

MaxTurns == 2         \* sessions of one client in SpecInTurn

\* smart_sync called when no other client is in a session.
StartInTurn(c) ==
  /\ \A d \in Clients \ {c} : pc[d] = "idle"
  /\ nsessions[c] < MaxTurns
  /\ StartSession(c)
  /\ nsessions' = [nsessions EXCEPT ![c] = @ + 1]

NextInTurn ==
  \E c \in Clients :
    \/ StartInTurn(c)
    \/ PushDeletedS3(c)
    \/ PullDeletedLocal(c)
    \/ PushNewS3(c)
    \/ PullNewLocal(c)
    \/ PushModifiedS3(c)
    \/ PullModifiedLocal(c)
    \/ RevertModifiedS3(c)
    \/ RevertModifiedLocal(c)
    \/ Finish(c)

SpecInTurn == InitInTurn /\ [][NextInTurn]_vars

\* ------------------------------------------------------------ the claims
\* The sets of the specification, read off the state of client c: M (the
\* files of the data folder), R (versions.csv), L0 (versionsLocal.csv),
\* T0 (deletedLocal.csv) and Tr (deletedS3.csv), the ignored paths left
\* out of M and R as the classification leaves them out.
PathsOf(csv) == {csv[i].file : i \in 1..Len(csv)}
SetM(c) == {p \in Paths : files[c][p] # NoFile} \ ignore[c]
SetR(c) == PathsOf(s3versions[c]) \ ignore[c]
SetL0(c) == PathsOf(localversions[c])
SetT0(c) == PathsOf(localdel[c])
SetTr(c) == PathsOf(s3del[c])

\* The records csv holds for path p.
RecordsOf(csv, p) == SelectSeq(csv, LAMBDA r : r.file = p)

\* The step in which client c runs phase.
Runs(c, phase) == pc[c] = phase /\ pc'[c] # phase

\* The phases a session has run, and the lists they showed.
PhasesRun(c) == [i \in 1..Len(hist[c]) |-> hist[c][i].phase]
ShownBy(c, phase) ==
  UNION {Range(hist[c][i].cands) :
           i \in {k \in 1..Len(hist[c]) : hist[c][k].phase = phase}}

SpecRank(phase) ==
  CASE phase = "pull_deleted_local" -> 1
    [] phase = "push_deleted_s3" -> 2
    [] phase = "push_new_s3" -> 3
    [] phase = "pull_new_local" -> 4
    [] phase \in {"push_modified_s3", "revert_modified_s3"} -> 5
    [] phase \in {"pull_modified_local", "revert_modified_local"} -> 6

\* C2 (as amended): in every session the phases run strictly in the order
\* PushDeletedRemote, PullDeletedLocal, PushNewRemote, PullNewLocal, upload
\* of LocalNewer (5a), download of RemoteNewer (6a), revert upload of
\* RemoteNewer (5b), revert download of LocalNewer (6b), none skipped
\* whatever the earlier selections were: the remote-deletion phase finishes
\* before the local-deletion phase starts.
C2_PhaseOrder ==
  LET order == <<"push_deleted_s3", "pull_deleted_local", "push_new_s3",
                 "pull_new_local", "push_modified_s3", "pull_modified_local",
                 "revert_modified_s3", "revert_modified_local", "finish">>
      n == Len(hist[Alone])
  IN pc[Alone] # "idle" =>
       /\ n < Len(order)
       /\ PhasesRun(Alone) = SubSeq(order, 1, n)
       /\ pc[Alone] = order[n + 1]

\* A session that has run all its phases, the first of which showed files
\* of which the user selected none.
C2_Witness ==
  /\ pc[Alone] = "finish"
  /\ hist[Alone][1].cands # <<>>
  /\ SetR(Alone) = Range(hist[Alone][1].cands)

\* C2 as stated: the phases run in the order of the specification, the
\* local-deletion phase before the remote-deletion phase.
C2_Original ==
  \A i, j \in 1..Len(hist[Alone]) :
    i < j => SpecRank(hist[Alone][i].phase) <= SpecRank(hist[Alone][j].phase)

\* C3 (as amended): the four sub-prompts run in the order 5a (upload of
\* LocalNewer), 6a (download of RemoteNewer), 5b (revert upload of
\* RemoteNewer), 6b (revert download of LocalNewer): a path offered for
\* revert upload was offered for download before, and a path classified
\* LocalNewer is offered for upload before it is offered for revert download.
C3_SubPromptOrder ==
  \A i \in 1..Len(hist[Alone]) :
    LET before(phase) == \E j \in 1..(i - 1) : hist[Alone][j].phase = phase
        e == hist[Alone][i]
    IN /\ e.phase = "pull_modified_local" => before("push_modified_s3")
       /\ e.phase = "revert_modified_s3" =>
            /\ before("pull_modified_local")
            /\ Range(e.cands) \subseteq ShownBy(Alone, "pull_modified_local")
       /\ e.phase = "revert_modified_local" =>
            /\ before("revert_modified_s3")
            /\ before("push_modified_s3")

\* A path that was offered for download (6a), was not downloaded, and was
\* then offered for revert upload (5b).
C3_Witness ==
  /\ last[Alone].phase = "revert_modified_s3"
  /\ last[Alone].cands # <<>>
  /\ Range(last[Alone].cands) \subseteq ShownBy(Alone, "pull_modified_local")

\* C3 as stated: both sub-prompts of PushModifiedRemote run before either
\* sub-prompt of PullModifiedLocal: when a RemoteNewer path is offered for
\* download (6a), the revert upload (5b) has run.
C3_Original ==
  \A i \in 1..Len(hist[Alone]) :
    (hist[Alone][i].phase = "pull_modified_local"
       /\ hist[Alone][i].cands # <<>>)
      => \E j \in 1..(i - 1) : hist[Alone][j].phase = "revert_modified_s3"

\* C4 (as amended): the candidate set offered for local deletion is exactly
\* (M \cap Tr) \ R: every non-ignored path that is present locally, recorded
\* in RemoteTombstones and not listed by RemoteManifest.
C4_LocalDeleteCandidates ==
  [][Runs(Alone, "pull_deleted_local") =>
       Range(last'[Alone].cands)
         = (SetM(Alone) \cap SetTr(Alone)) \ SetR(Alone)]_vars

\* The phase has run, and showed a file while another local file that
\* RemoteTombstones records and RemoteManifest lists was not shown.
C4_Witness ==
  /\ last[Alone].phase = "pull_deleted_local"
  /\ SetM(Alone) \cap SetTr(Alone) \cap SetR(Alone) # {}

\* C4 as stated: the candidate set is M \cap Tr, whether or not
\* RemoteManifest lists the path.
C4_Original ==
  [][Runs(Alone, "pull_deleted_local") =>
       Range(last'[Alone].cands) = SetM(Alone) \cap SetTr(Alone)]_vars

\* C5: in every session, LocalTombstones as PushDeletedRemote persists it is
\* ((L0 \cup T0_prev) \ M) \cap R, computed anew (its records are those of
\* RemoteManifest), whatever the user selects at the prompt, and when the
\* candidate set is empty.
C5_Tombstones ==
  [][Runs(Alone, "push_deleted_s3") =>
       /\ PathsOf(localdel'[Alone])
            = ((SetL0(Alone) \cup SetT0(Alone)) \ SetM(Alone)) \cap SetR(Alone)
       /\ \A p \in Paths :
            RecordsOf(localdel'[Alone], p)
              = IF p \in PathsOf(localdel'[Alone])
                THEN RecordsOf(s3versions[Alone], p) ELSE <<>>]_vars

\* The phase showed its candidates, the user selected none, and the
\* tombstones are persisted.
C5_Witness ==
  /\ last[Alone].phase = "push_deleted_s3"
  /\ last[Alone].prompted
  /\ ~last[Alone].called
  /\ Range(last[Alone].cands) = PathsOf(localdel[Alone])

\* The lists of the classification, as sets of paths.
LocalNewer(c) ==
  LET l == ComputeDfs(c).mod_mine IN {l[i].file : i \in 1..Len(l)}
RemoteNewer(c) ==
  LET l == ComputeDfs(c).mod_other IN {l[i].file : i \in 1..Len(l)}

\* Path p is in M and in R with different checksums.
Modified(c, p) ==
  /\ p \in SetM(c) \cap SetR(c)
  /\ Hash(files[c][p].data) # RecordsOf(s3versions[c], p)[1].hash

\* C6: for every classification, each path in M \cap R whose checksums
\* differ is in exactly one of LocalNewer and RemoteNewer: in LocalNewer iff
\* the local timestamp is strictly greater than the remote one, in
\* RemoteNewer otherwise (equal timestamps included); no other path is in
\* either.
C6_Partition ==
  \A p \in Paths :
    LET inLocal == p \in LocalNewer(Alone)
        inRemote == p \in RemoteNewer(Alone)
    IN IF Modified(Alone, p)
       THEN /\ inLocal
              <=> files[Alone][p].mtime
                    > RecordsOf(s3versions[Alone], p)[1].time
            /\ inRemote <=> ~inLocal
       ELSE ~inLocal /\ ~inRemote

\* A session at the first prompt for modified files, one file newer than
\* its record and one of the same second as its record.
C6_Witness ==
  /\ pc[Alone] = "push_modified_s3"
  /\ LocalNewer(Alone) # {}
  /\ \E p \in RemoteNewer(Alone) :
       files[Alone][p].mtime = RecordsOf(s3versions[Alone], p)[1].time

\* The record _compute_directory makes of file p of client c.
RecordOfFile(c, p) ==
  [file |-> p, editor |-> c, time |-> files[c][p].mtime,
   hash |-> Hash(files[c][p].data)]

\* C7: PushNewRemote offers the paths of M \ R; for every such path that the
\* user selects and whose upload succeeds, RemoteManifest after the phase
\* holds the path with the local checksum; a path that was not selected or
\* whose upload failed is not added.
C7_PushNew ==
  [][Runs(Alone, "push_new_s3") =>
       LET e == last'[Alone]
       IN /\ Range(e.cands) = SetM(Alone) \ SetR(Alone)
          /\ Range(e.done) \subseteq Range(e.picked)
          /\ Range(e.picked) \subseteq Range(e.cands)
          /\ \A p \in Range(e.cands) :
               IF p \in Range(e.done)
               THEN /\ RecordsOf(s3versions'[Alone], p)
                         = <<RecordOfFile(Alone, p)>>
                    /\ objects'[p] = <<files[Alone][p].data>>
               ELSE /\ RecordsOf(s3versions'[Alone], p) = <<>>
                    /\ objects'[p] = objects[p]]_vars

\* Two new files were selected; the upload of one failed.
C7_Witness ==
  /\ last[Alone].phase = "push_new_s3"
  /\ Len(last[Alone].picked) = 2
  /\ Len(last[Alone].done) = 1
  /\ PathsOf(s3versions[Alone]) = Range(last[Alone].done)

NewLog(c) == SubSeq(log'[c], Len(log[c]) + 1, Len(log'[c]))

\* C9: in PushDeletedRemote, when one of the three calls fails for a
\* confirmed path, only that path is aborted: its RemoteManifest record is
\* unchanged, nothing is added to RemoteTombstones for it, the failure is
\* logged with the Downloaded/Deleted/Reuploaded flags (which say what
\* happened to the object), and the other confirmed paths are processed.
C9_SoftDeleteFailure ==
  [][(Runs(Alone, "push_deleted_s3") /\ last'[Alone].confirm = "y") =>
       LET e == last'[Alone]
           failed == Range(e.picked) \ Range(e.done)
           new == NewLog(Alone)
       IN /\ Len(new) = Cardinality(failed)
          /\ Cardinality(Range(e.done)) + Cardinality(failed) = Len(e.picked)
          /\ \A p \in failed :
               /\ RecordsOf(s3versions'[Alone], p)
                    = RecordsOf(s3versions[Alone], p)
               /\ RecordsOf(s3del'[Alone], p) = RecordsOf(s3del[Alone], p)
               /\ \E k \in 1..Len(new) :
                    /\ new[k].op = "delete_from_s3"
                    /\ new[k].file = p
                    /\ ~new[k].reuploaded
                    /\ new[k].deleted => new[k].downloaded
                    /\ new[k].downloaded => objects[p] # NoObject
                    /\ objects'[p] = IF new[k].deleted THEN NoObject
                                     ELSE objects[p]
                    /\ archive'[p[Len(p)]] # archive[p[Len(p)]] =>
                         \E q \in Range(e.done) : q[Len(q)] = p[Len(p)]
          /\ \A p \in Range(e.done) :
               /\ objects'[p] = NoObject
               /\ p \notin PathsOf(s3versions'[Alone])]_vars

\* Two paths were confirmed; the soft delete of the first failed and the
\* second was soft-deleted all the same.
C9_Witness ==
  /\ last[Alone].phase = "push_deleted_s3"
  /\ last[Alone].confirm = "y"
  /\ Len(last[Alone].picked) = 2
  /\ last[Alone].done = <<last[Alone].picked[2]>>
  /\ Len(log[Alone]) = 1

\* What the phase that has just run did for the file p it got through.
Transferred(c, phase, p) ==
  CASE phase \in {"push_new_s3", "push_modified_s3", "revert_modified_s3"}
         -> objects'[p] = <<files[c][p].data>>
    [] phase \in {"pull_new_local", "pull_modified_local",
                  "revert_modified_local"}
         -> files'[c][p] = [data |-> objects[p][1], mtime |-> now]
    [] phase = "pull_deleted_local" -> files'[c][p] = NoFile
    [] phase = "push_deleted_s3" -> objects'[p] = NoObject

\* C10: a failed transfer of a file (upload, download, remote delete, local
\* delete) never aborts the session: every other selected file of the phase
\* is still tried, and transferred unless it fails too; each failure gets
\* one log entry; the session goes on to the next phase; and at its end the
\* two tables are written to the store, whatever the log holds.
C10_FailureIsLocal ==
  /\ [][\A phase \in Range(PhaseOrder) :
          Runs(Alone, phase) =>
            LET e == last'[Alone]
                new == NewLog(Alone)
                ran == e.called /\ e.confirm \in {"-", "y"}
            IN /\ e.phase = phase
               /\ \E i \in 1..Len(PhaseOrder) :
                    /\ PhaseOrder[i] = phase
                    /\ pc'[Alone] = IF i = Len(PhaseOrder) THEN "finish"
                                    ELSE PhaseOrder[i + 1]
               /\ SubSeq(log'[Alone], 1, Len(log[Alone])) = log[Alone]
               /\ Len(new) = IF ran THEN Len(e.picked) - Len(e.done) ELSE 0
               /\ ran => Range(e.picked)
                           = Range(e.done) \cup {new[k].file : k \in 1..Len(new)}
               /\ ~ran => e.done = <<>>
               /\ \A p \in Range(e.done) : Transferred(Alone, phase, p)]_vars
  /\ [][(pc[Alone] = "finish" /\ pc'[Alone] # "finish") =>
          /\ pc'[Alone] = "idle"
          /\ remoteVersions' = s3versions[Alone]
          /\ remoteDel' = s3del[Alone]]_vars

\* A session that has run its last phase: two files were selected there,
\* the download of the first failed, the second was downloaded, and the
\* log holds the one failure.
C10_Witness ==
  /\ pc[Alone] = "finish"
  /\ last[Alone].phase = "revert_modified_local"
  /\ Len(last[Alone].picked) = 2
  /\ last[Alone].done = <<last[Alone].picked[2]>>
  /\ Len(log[Alone]) = 1

\* The last record csv holds for path p.
LastRecord(csv, p) == RecordsOf(csv, p)[Len(RecordsOf(csv, p))]

\* C11: after any sequence of successful remote deletions, the last content
\* of every soft-deleted path (the content its RemoteTombstones record names)
\* is still in the remote archive location, under the archive key of the
\* path, also when two deleted paths have the same file name.
C11_Original ==
  \A p \in SetTr(Alone) :
    /\ archive[p[Len(p)]] # NoObject
    /\ Hash(archive[p[Len(p)]][1]) = LastRecord(s3del[Alone], p).hash

\* C12: two clients run sessions on one prefix at the same time, nothing
\* excludes them, and each table of the store is the table of the client
\* that wrote it last: a write at session end replaces the whole table with
\* the writer's copy (and nothing else changes the table), so a record that
\* only the other client's session added can be absent from it.
C12_LastWriterWins ==
  [][/\ \A c \in Clients :
          /\ (pc[c] = "finish" /\ pc'[c] # "finish")
               => remoteVersions' = s3versions[c]
          /\ (pc[c] = "finish_deleted" /\ pc'[c] # "finish_deleted")
               => remoteDel' = s3del[c]
     /\ remoteVersions' # remoteVersions
          => \E c \in Clients : pc[c] = "finish" /\ pc'[c] # "finish"
     /\ remoteDel' # remoteDel
          => \E c \in Clients :
               pc[c] = "finish_deleted" /\ pc'[c] # "finish_deleted"]_vars

\* Both clients are at the end of sessions that ran side by side; one
\* wrote its versions.csv first and the other last: the table of the store
\* is the table of the last, and the record of a file the first uploaded is
\* not in it.
C12_Witness ==
  /\ \A c \in Clients : pc[c] = "finish_deleted"
  /\ \E c, d \in Clients :
       /\ c # d
       /\ remoteVersions = s3versions[d]
       /\ \E p \in PathsOf(s3versions[c]) :
            /\ objects[p] # NoObject
            /\ p \notin PathsOf(remoteVersions)

\* C13: when a session completes, the RemoteManifest and the
\* RemoteTombstones of the store are the client's copies as the last phase
\* left them, and LocalSnapshot is a fresh scan of the data folder as it is
\* after all phases (one record per file, with its time and checksum); no
\* step before the end of the session writes either table to the store.
C13_SessionEnd ==
  [][IF pc[Alone] = "finish" /\ pc'[Alone] # "finish"
     THEN /\ remoteVersions' = s3versions[Alone]
          /\ remoteDel' = s3del[Alone]
          /\ files' = files
          /\ s3versions' = s3versions /\ s3del' = s3del
          /\ \A p \in Paths :
               RecordsOf(localversions'[Alone], p)
                 = IF files[Alone][p] # NoFile
                   THEN <<RecordOfFile(Alone, p)>> ELSE <<>>
     ELSE remoteVersions' = remoteVersions /\ remoteDel' = remoteDel]_vars

\* A session has completed in which a file was pushed and another was
\* soft-deleted: both tables of the store and the snapshot hold records.
C13_Witness ==
  /\ pc[Alone] = "idle"
  /\ remoteVersions # <<>> /\ remoteVersions = s3versions[Alone]
  /\ remoteDel # <<>> /\ remoteDel = s3del[Alone]
  /\ localversions[Alone] # <<>>

\* Does csv hold at most one record for each path?
PathUnique(csv) == \A p \in Paths : Len(RecordsOf(csv, p)) <= 1

\* C14: after any sequence of phases and sessions, the scanned local
\* Manifest, LocalSnapshot and RemoteManifest (the client's copy and the
\* table of the store) hold at most one FileRecord per path, also after a
\* path was pushed as new, pushed as modified, or reverted.
C14_PathUnique ==
  /\ PathUnique(ComputeDirectory(Alone, TRUE))
  /\ PathUnique(ComputeDfs(Alone).mine)
  /\ PathUnique(localversions[Alone])
  /\ PathUnique(s3versions[Alone])
  /\ PathUnique(remoteVersions)

\* A path that RemoteManifest listed has just been uploaded again, as a
\* modified file or as a revert, and RemoteManifest lists a second path.
C14_Witness ==
  /\ last[Alone].phase \in {"push_modified_s3", "revert_modified_s3"}
  /\ last[Alone].done # <<>>
  /\ \A p \in Range(last[Alone].done) :
       RecordsOf(s3versions[Alone], p) = <<RecordOfFile(Alone, p)>>
  /\ PathsOf(s3versions[Alone]) = Paths

\* The phases that download.
PullPhases == {"pull_new_local", "pull_modified_local",
               "revert_modified_local"}

\* C15: a path that was uploaded at a push phase and is then downloaded at
\* a pull phase comes back with the checksum of the file that was uploaded,
\* which is the checksum RemoteManifest records for it: the object of every
\* path RemoteManifest lists has the recorded checksum, and every file a
\* pull phase downloads has the bytes of its object.
C15_RoundTrip ==
  /\ [](\A p \in PathsOf(s3versions[Alone]) :
          objects[p] # NoObject
            => Hash(objects[p][1]) = LastRecord(s3versions[Alone], p).hash)
  /\ [][\A phase \in PullPhases :
          Runs(Alone, phase) =>
            \A p \in Range(last'[Alone].done) :
              /\ files'[Alone][p].data = objects[p][1]
              /\ Hash(files'[Alone][p].data)
                   = LastRecord(s3versions'[Alone], p).hash]_vars

\* The client uploaded a file in an earlier session; it has now answered
\* "all" at a pull phase and has the file back, with the recorded checksum.
C15_Witness ==
  /\ last[Alone].phase \in PullPhases
  /\ last[Alone].text = "all"
  /\ last[Alone].done # <<>>
  /\ \A p \in Range(last[Alone].done) :
       /\ LastRecord(s3versions[Alone], p).editor = Alone
       /\ Hash(files[Alone][p].data) = LastRecord(s3versions[Alone], p).hash

\* C16: no path of the client's ignore set is in the list a phase shows
\* (local delete, remote delete, new-local push, new-remote pull,
\* LocalNewer, RemoteNewer), and no step of a session uploads, downloads or
\* deletes an ignored path: its file and its object stay as they are.
C16_Ignored ==
  /\ [](\A i \in 1..Len(hist[Alone]) :
          Range(hist[Alone][i].cands) \cap ignore[Alone] = {})
  /\ [][pc[Alone] # "idle" =>
          /\ ignore'[Alone] = ignore[Alone]
          /\ Range(last'[Alone].cands) \cap ignore[Alone] = {}
          /\ Range(last'[Alone].picked) \cap ignore[Alone] = {}
          /\ \A p \in ignore[Alone] :
               /\ files'[Alone][p] = files[Alone][p]
               /\ objects'[p] = objects[p]]_vars

\* The client ignores a path whose file is in its data folder and is not
\* in RemoteManifest; PushNewRemote has shown the other new file only.
C16_Witness ==
  /\ last[Alone].phase = "push_new_s3"
  /\ last[Alone].cands # <<>>
  /\ \E p \in ignore[Alone] :
       /\ files[Alone][p] # NoFile
       /\ p \notin PathsOf(s3versions[Alone])
       /\ objects[p] = NoObject

\* C17: a file that cannot be read during a scan is skipped and the scan
\* goes on with the other files: no session ends in a traceback because a
\* file of the data folder is unreadable.
C17_Original ==
  (unreadable[Alone] # {} /\ broken[Alone] = {}) => pc[Alone] # "crashed"

\* C18: loading the ledger never fails the session: no session ends in a
\* traceback because a table is an empty file or is malformed.
C18_Original ==
  (broken[Alone] # {} /\ unreadable[Alone] = {}) => pc[Alone] # "crashed"

\* C19: the .S3 folder of the data folder is deleted only by reset_local on
\* a connection whose latest reset_confirm was answered y or yes, or by a
\* reset_all answered so; the .S3 folder of the prefix, tables and archive,
\* only by reset_remote on such a connection or by such a reset_all.
\* _reset_approved is False until reset_confirm is called, changes only
\* there, and is True afterwards exactly when the answer was y or yes.  A
\* reset call that finds no approval changes nothing, and no reset changes a
\* file or an object of the data.
ResetPhases == {"reset_confirm", "reset_local", "reset_remote", "reset_all"}

C19_Step ==
  LET call == last'[Alone]
      agreed == \/ call.phase = "reset_all" /\ call.confirm = "y"
      tables == <<s3versions, s3del, localversions, localdel, ignore,
                  remoteVersions, remoteDel, archive>>
  IN /\ (folder[Alone] /\ ~folder'[Alone]) =>
          \/ call.phase = "reset_local" /\ approved[Alone]
          \/ agreed
     /\ ((prefix /\ ~prefix') \/ (\E n \in Basenames :
            archive[n] # NoObject /\ archive'[n] = NoObject)) =>
          \/ call.phase = "reset_remote" /\ approved[Alone]
          \/ agreed
     /\ approved'[Alone] # approved[Alone] =>
          call.phase = "reset_confirm" /\ last' # last
     /\ (call.phase = "reset_confirm" /\ last' # last) =>
          approved'[Alone] = (call.confirm = "y")
     /\ (call.phase \in {"reset_local", "reset_remote"} /\ ~approved[Alone]) =>
          /\ tables' = tables
          /\ folder' = folder
          /\ prefix' = prefix
     /\ (call.phase \in ResetPhases /\ last' # last) =>
          /\ files' = files
          /\ objects' = objects

C19_ResetApproved ==
  /\ ~approved[Alone]
  /\ [][C19_Step]_vars

\* C19 happens: after an approval reset_local and reset_remote have deleted
\* both .S3 folders, and the files of the data folder are still there.
C19_Witness ==
  /\ approved[Alone]
  /\ last[Alone].phase = "reset_remote"
  /\ ~folder[Alone]
  /\ ~prefix
  /\ \E p \in Paths : files[Alone][p] # NoFile

\* C20: push_modified_s3 offers LocalNewer and revert_modified_s3 offers
\* RemoteNewer; for every offered path that the user selects and whose
\* upload succeeds, RemoteManifest after the phase holds exactly one record
\* of the path, the local one (checksum, timestamp and editor of the scan),
\* the object holds the local bytes and the path is no longer modified; an
\* offered path that was not selected or whose upload failed keeps its
\* record and its object.
PushModifiedStep(phase) ==
  Runs(Alone, phase) =>
    LET e == last'[Alone]
        offered == IF phase = "push_modified_s3" THEN LocalNewer(Alone)
                   ELSE RemoteNewer(Alone)
    IN /\ Range(e.cands) = offered
       /\ Range(e.done) \subseteq Range(e.picked)
       /\ Range(e.picked) \subseteq Range(e.cands)
       /\ \A p \in offered :
            IF p \in Range(e.done)
            THEN /\ RecordsOf(s3versions'[Alone], p)
                      = <<RecordOfFile(Alone, p)>>
                 /\ objects'[p] = <<files[Alone][p].data>>
                 /\ ~Modified(Alone, p)'
            ELSE /\ RecordsOf(s3versions'[Alone], p)
                      = RecordsOf(s3versions[Alone], p)
                 /\ objects'[p] = objects[p]
                 /\ Modified(Alone, p)'

C20_PushModified ==
  /\ [][PushModifiedStep("push_modified_s3")]_vars
  /\ [][PushModifiedStep("revert_modified_s3")]_vars

\* C20 happens: two files newer than their records were selected in
\* push_modified_s3 and the upload of one of them failed.
C20_Witness ==
  /\ last[Alone].phase = "push_modified_s3"
  /\ Len(last[Alone].picked) = 2
  /\ Len(last[Alone].done) = 1

\* C21: pull_new_local, pull_modified_local and revert_modified_local never
\* change RemoteManifest or RemoteTombstones, neither the copy of the
\* session nor the table of the store, whatever is selected and whether the
\* downloads succeed or fail; no object and no archived object changes, and
\* the only files that change are selected files that were downloaded.
C21_PullFrame ==
  [][\A phase \in PullPhases :
       Runs(Alone, phase) =>
         LET e == last'[Alone]
         IN /\ s3versions' = s3versions
            /\ s3del' = s3del
            /\ remoteVersions' = remoteVersions
            /\ remoteDel' = remoteDel
            /\ objects' = objects
            /\ archive' = archive
            /\ \A p \in Paths :
                 files'[Alone][p] # files[Alone][p]
                   => p \in Range(e.picked) \cap Range(e.done)]_vars

\* C21 happens: two paths of RemoteManifest were selected at a pull phase,
\* one download failed, and the other file is now in the data folder.
C21_Witness ==
  /\ last[Alone].phase \in PullPhases
  /\ Len(last[Alone].picked) = 2
  /\ Len(last[Alone].done) = 1
  /\ Len(s3versions[Alone]) = 2
  /\ files[Alone][last[Alone].done[1]] # NoFile

\* C22: when every prompt of a session is answered with enter alone, no
\* phase creates, changes or deletes a file of the data folder, an object or
\* an archived object or adds to the log, and the RemoteManifest and the
\* RemoteTombstones the session's end writes to the store are the ones the
\* session loaded at its start (the tables of the store, which no one else
\* writes during the session of a single client).
C22_Original ==
  /\ [][(pc[Alone] \in Range(PhaseOrder) /\ last'[Alone].declined) =>
          /\ files' = files
          /\ objects' = objects
          /\ archive' = archive
          /\ log' = log]_vars
  /\ [][(pc[Alone] = "finish" /\ pc'[Alone] = "idle"
           /\ last[Alone].declined) =>
          /\ remoteVersions' = remoteVersions
          /\ remoteDel' = remoteDel]_vars

\* C23: the list handed to the transfer function of a phase holds paths of
\* the list the phase showed only: "all" hands over the whole list, enter
\* alone calls no transfer function and transfers nothing, a number that is
\* no index of the list is left out, and no file, object or archived object
\* of a path outside the list shown is created, changed or deleted.
C23_Selection ==
  [][\A phase \in Range(PhaseOrder) :
       Runs(Alone, phase) =>
         LET e == last'[Alone]
             shown == Range(e.cands)
         IN /\ Range(e.picked) \subseteq shown
            /\ Range(e.done) \subseteq Range(e.picked)
            /\ e.text = "all" => e.picked = e.cands
            /\ (e.prompted /\ e.text = "") =>
                 /\ ~e.called
                 /\ e.picked = <<>>
                 /\ e.done = <<>>
                 /\ files' = files
                 /\ objects' = objects
                 /\ archive' = archive
            /\ e.text = "0,1" => Len(e.picked) <= MaxPicks
            /\ (e.outside /\ e.text = "0,1") => Len(e.picked) < MaxPicks
            /\ \A p \in Paths \ shown :
                 /\ files'[Alone][p] = files[Alone][p]
                 /\ objects'[p] = objects[p]
            /\ \A n \in Basenames :
                 archive'[n] # archive[n]
                   => \E p \in Range(e.picked) : Basename(p) = n]_vars

\* C23 happens: a phase showed two paths, the user typed the index of one
\* and a number that is no index, and the one file was transferred while
\* the other stayed as it was.
C23_Witness ==
  /\ last[Alone].phase = "push_new_s3"
  /\ Len(last[Alone].cands) = 2
  /\ last[Alone].outside
  /\ Len(last[Alone].picked) = 1
  /\ last[Alone].done = last[Alone].picked
  /\ \E p \in Range(last[Alone].cands) \ Range(last[Alone].picked) :
       objects[p] = NoObject

\* C24: every phase classifies anew, from the data folder and the tables as
\* the earlier phases of the session left them: a path soft-deleted with
\* success in push_deleted_s3 is not in the list of pull_new_local of the
\* same session, a path deleted locally in pull_deleted_local is not in the
\* list of push_new_s3, and a path uploaded in push_new_s3 is in the list of
\* no later phase.
C24_Reclassified ==
  \A i, j \in 1..Len(hist[Alone]) :
    LET early == hist[Alone][i]
        late == hist[Alone][j]
        apart == Range(early.done) \cap Range(late.cands) = {}
    IN i < j =>
         /\ (early.phase = "push_deleted_s3" /\ late.phase = "pull_new_local")
              => apart
         /\ (early.phase = "pull_deleted_local" /\ late.phase = "push_new_s3")
              => apart
         /\ early.phase = "push_new_s3" => apart

\* C24 happens: a session has soft-deleted one path and then uploaded a new
\* one, and has run all its phases; the soft-deleted path has an archived
\* object, no file and no record, the uploaded one is in RemoteManifest.
C24_Witness ==
  /\ pc[Alone] = "finish"
  /\ hist[Alone][1].phase = "push_deleted_s3"
  /\ hist[Alone][3].phase = "push_new_s3"
  /\ Len(hist[Alone][1].done) = 1
  /\ Len(hist[Alone][3].done) = 1
  /\ files[Alone][hist[Alone][1].done[1]] = NoFile
  /\ hist[Alone][3].done[1] \in PathsOf(s3versions[Alone])

\* C25: a table is saved all or nothing: when the process ends during the
\* save of versionsLocal.csv at the end of a session, the table holds
\* either the rows it held before or all the rows of the new scan.
C25_Original ==
  [][(pc[Alone] = "finish" /\ pc'[Alone] = "crashed") =>
       localversions'[Alone] \in {localversions[Alone],
                                  ToCsv(ComputeDirectory(Alone, TRUE))}]_vars

\* The internal metadata subtree of the data folder: the paths under .S3.
UnderMetadata(p) == p[1] = ".S3"

\* C26: the scan of the data folder has a record for every file whose path
\* is not under the metadata subtree, and for no file under it: a file
\* outside the subtree is in the scan whatever its name.
C26_Original ==
  \A p \in AllPaths :
    p \in FileCol(ComputeDirectory(Alone, TRUE))
      <=> (files[Alone][p] # NoFile /\ ~UnderMetadata(p))

\* C27: smart_sync and reset_all called with a platform that is not
\* supported do not return as after a synchronization or a reset: the call
\* ends in an error.
C27_Original ==
  [][(/\ last'[Alone] # last[Alone]
      /\ last'[Alone].phase \in {"smart_sync", "reset_all"}
      /\ last'[Alone].text \in Platforms \ SupportedPlatforms)
       => pc'[Alone] = "crashed"]_vars

\* C28: for every path of the client's ignore set, the RemoteManifest that
\* the end of a session writes to the store holds the records the store
\* held when the session loaded it, whatever was selected in the phases.
C28_Original ==
  [][(pc[Alone] = "finish" /\ pc'[Alone] = "idle") =>
       \A p \in ignore[Alone] :
         RecordsOf(remoteVersions', p) = RecordsOf(remoteVersions, p)]_vars

\* C29: at the end of every session of the single client, failed transfers
\* and failed steps of a soft delete included, every path of the
\* RemoteManifest written to the store has an object at its key.
C29_Original ==
  [][(pc[Alone] = "finish" /\ pc'[Alone] = "idle") =>
       \A p \in PathsOf(remoteVersions') : objects'[p] # NoObject]_vars

\* C30: RemoteTombstones, as the session holds it and as the store holds
\* it, never has two records of one path, also when a path is soft-deleted,
\* uploaded again as a new file and soft-deleted again; and no list of
\* pull_deleted_local shows a path twice.
C30_Original ==
  /\ PathUnique(s3del[Alone])
  /\ PathUnique(remoteDel)
  /\ \A i \in 1..Len(hist[Alone]) :
       hist[Alone][i].phase = "pull_deleted_local"
         => \A j, k \in 1..Len(hist[Alone][i].cands) :
              j # k => hist[Alone][i].cands[j] # hist[Alone][i].cands[k]

\* C31: the path whose deletion on S3 and whose download the user declined
\* is in the list of push_deleted_s3 of every later session of the client
\* that does not ignore it, as long as the data folder does not hold it and
\* the RemoteManifest the session loaded lists it: it is not forgotten.
C31_Original ==
  [][(/\ Runs(Alone, "push_deleted_s3")
      /\ files[Alone][DeclinedPath] = NoFile
      /\ DeclinedPath \in PathsOf(s3versions[Alone])
      /\ DeclinedPath \notin ignore[Alone])
       => DeclinedPath \in Range(last'[Alone].cands)]_vars

\* The step that ends the session of client c.
Completes(c) == pc[c] = "finish" /\ pc'[c] = "idle"

\* The paths the phase of a session of c has deleted, as hist[c] has them.
DeletedBy(c, phase) ==
  UNION {Range(hist[c][i].done) :
           i \in {k \in 1..Len(hist[c]) : hist[c][k].phase = phase}}

\* The store holds path p as soft-deleted.
SoftDeleted(p) ==
  p \in PathsOf(remoteDel) /\ p \notin PathsOf(remoteVersions)

\* C32: clients run one after the other. A session that has soft-deleted
\* path p leaves it, when it completes, in the store's RemoteTombstones and
\* not in the store's RemoteManifest; the next session of a client that
\* holds p and does not ignore it has p in the list of pull_deleted_local;
\* and when that session has removed the file, p is at its end neither in
\* the client's data folder nor in the store's RemoteManifest.
C32_Propagates ==
  [][\A c \in Clients, p \in Paths :
       /\ (Completes(c) /\ p \in DeletedBy(c, "push_deleted_s3"))
            => (p \in PathsOf(remoteDel') /\ p \notin PathsOf(remoteVersions'))
       /\ (/\ Runs(c, "pull_deleted_local")
           /\ SoftDeleted(p)
           /\ files[c][p] # NoFile
           /\ p \notin ignore[c])
            => p \in Range(last'[c].cands)
       /\ (Completes(c) /\ p \in DeletedBy(c, "pull_deleted_local"))
            => (files'[c][p] = NoFile /\ p \notin PathsOf(remoteVersions'))
    ]_vars

\* C32 happens: the first client has soft-deleted a path and completed its
\* session, and the second, in the session after it, was shown the path,
\* has removed its file and has run all its phases.
C32_Witness ==
  /\ pc[Alone] = "idle"
  /\ nsessions[Alone] = 1
  /\ nsessions[Second] = 1
  /\ pc[Second] = "finish"
  /\ \E p \in DeletedBy(Second, "pull_deleted_local") :
       /\ SoftDeleted(p)
       /\ objects[p] = NoObject
       /\ files[Second][p] = NoFile
       /\ p \notin PathsOf(s3versions[Second])

\* The two phases that delete files.
DeletePhases == {"push_deleted_s3", "pull_deleted_local"}

\* C33: in push_deleted_s3 and in pull_deleted_local a selection of
\* indices deletes nothing by itself: when files were selected and the
\* confirmation that follows is answered with anything but y or yes (in
\* any case of the letters), the phase removes no file of the data folder,
\* stages, deletes and archives no object, and leaves every record of
\* RemoteManifest and of RemoteTombstones as it was.
C33_Original ==
  [][(/\ \E phase \in DeletePhases : Runs(Alone, phase)
      /\ last'[Alone].called
      /\ last'[Alone].confirm # "y")
       => /\ files' = files
          /\ objects' = objects
          /\ archive' = archive
          /\ \A p \in Paths :
               /\ RecordsOf(s3versions'[Alone], p)
                    = RecordsOf(s3versions[Alone], p)
               /\ RecordsOf(s3del'[Alone], p) = RecordsOf(s3del[Alone], p)
    ]_vars

=============================================================================
